---------------------------- MODULE Spec2Model ----------------------------
(***************************************************************************)
(* PgAdminKK: the editable-query execution and reconciliation engine.      *)
(*                                                                         *)
(* db.py  : Database (one psycopg connection, one open transaction)        *)
(* ui.py  : QueryWorker (the worker thread), ResultsModel (rows + edit     *)
(*          overlay), MainWindow (the handlers of the interactive thread)  *)
(*                                                                         *)
(* Every handler of the interactive thread is one action.  The worker      *)
(* thread runs Database.execute_query in two steps (it takes the           *)
(* connection, then the statement completes), so that the handlers of the  *)
(* interactive thread interleave with a statement in progress.             *)
(***************************************************************************)
EXTENDS Integers, Sequences, FiniteSets, TLC

VARIABLES
    db,                  \* MainWindow.db: Database (conn, info) and its open transaction
    threads,             \* the QueryWorker threads that are running
    inbox,               \* finished-signals emitted by workers, queued to the interactive thread
    results_model,       \* MainWindow.results_model: ResultsModel
    pending,             \* MainWindow._pending_schema, _pending_table
    pending_dml_changes, \* MainWindow._pending_dml_changes
    original_info,       \* MainWindow._original_info
    actions_enabled,     \* commit_action / rollback_action enabled (always set together)
    results_stack,       \* results_stack.currentIndex(): 0 table view, 1 message area
    tree,                \* the schema tree: "empty", or "loaded" by _load_databases
    last                 \* the handler or worker step that ran last, and what it did

vars == <<db, threads, inbox, results_model, pending, pending_dml_changes,
          original_info, actions_enabled, results_stack, tree, last>>

(***************************************************************************)
(* Bounds of the model.                                                    *)
(***************************************************************************)
MaxVal == 1          \* the values a user can type into a cell are 0..MaxVal
MaxFetched == 0      \* the values a fetched cell can hold are 0..MaxFetched
MaxRows == 1         \* a SELECT returns at most MaxRows rows
MaxInbox == 1        \* completions emitted and not yet delivered


\* Python's None, for each kind of value that can be None.
NoInfo == [name |-> "", dbname |-> ""]    \* Database.info, _original_info
NoError == ""                             \* an error text: None, or "" in the signal
NotSet == <<>>                            \* an attribute that was never assigned
Null == -1                                \* a cell or key value: SQL NULL

(***************************************************************************)
(* The server: two databases, their tables and primary keys.               *)
(***************************************************************************)
Databases == {"d1", "d2"}

\* The tables of schema "public" in each database, with their primary keys:
\* both databases have a table t1, and only the one of d1 has a primary key.
Catalog(dbname) ==
    IF dbname = "d1" THEN [t1 |-> <<"id">>]
                     ELSE [t1 |-> <<>>]

TablesOf(dbname) == DOMAIN Catalog(dbname)

\* The profiles the connection dialog can be accepted with: its fields are
\* editable, so any database of the server (name, dbname; host, port, user and
\* password are the same for all and are left out).
DialogProfiles == {[name |-> "c1", dbname |-> d] : d \in Databases}

Columns == <<"id", "v">>      \* the columns of every tabular result
Values == 0 .. MaxVal
FetchedValues == 0 .. MaxFetched
Row == [{"id", "v"} -> FetchedValues]
RowSets == UNION {[1 .. n -> Row] : n \in 0 .. MaxRows}

NoEdits == [c \in {} |-> 0]

(***************************************************************************)
(* db.py: Database.  A session value s is                                  *)
(*   conn  : TRUE iff self.conn is a connection (not None)                 *)
(*   info  : self.info                                                     *)
(*   txn   : the uncommitted work of the connection's open transaction     *)
(*   calls : the driver calls made on a connection, in order               *)
(*   gone  : TRUE once a connection that was open has been closed          *)
(*   done  : the work made durable by commit                               *)
(*   exc   : TRUE once an exception is propagating out of the call         *)
(* Only conn, info and txn are kept in the variable db between steps.      *)
(***************************************************************************)
Session(d) ==
    [conn |-> d.conn, info |-> d.info, txn |-> d.txn,
     calls |-> <<>>, gone |-> FALSE, done |-> {}, exc |-> FALSE]

Stored(s) == [conn |-> s.conn, info |-> s.info, txn |-> s.txn]

\* Database.disconnect: close-time errors are swallowed; the server drops the
\* open transaction of a closed connection.
disconnect(s) ==
    IF s.conn
    THEN [s EXCEPT !.conn = FALSE, !.info = NoInfo, !.txn = {},
                   !.calls = Append(@, "close"), !.gone = TRUE]
    ELSE s

\* A mutation of connect: self.info is assigned before psycopg.connect is called.
connect_InfoFirst(s, info, ok) ==
    LET d == disconnect(s)
    IN IF ok
       THEN [d EXCEPT !.conn = TRUE, !.info = info, !.calls = Append(@, "connect")]
       ELSE [d EXCEPT !.info = info, !.exc = TRUE, !.calls = Append(@, "connect")]

\* Database.connect: psycopg.connect succeeds (ok) or raises.
connect(s, info, ok) ==
    LET d == disconnect(s)
    IN IF ok
       THEN [d EXCEPT !.conn = TRUE, !.info = info, !.calls = Append(@, "connect")]
       ELSE [d EXCEPT !.exc = TRUE, !.calls = Append(@, "connect")]

\* self.conn is not None and not self.conn.closed: the session closes a
\* connection only in disconnect, which drops it in the same call.
is_connected(s) == s.conn

\* Database.commit: conn.commit() makes the open transaction durable (ok) or
\* raises, and the server then has rolled the transaction back.
commit(s, ok) ==
    IF s.conn
    THEN IF ok
         THEN [s EXCEPT !.done = @ \cup s.txn, !.txn = {}, !.calls = Append(@, "commit")]
         ELSE [s EXCEPT !.txn = {}, !.exc = TRUE, !.calls = Append(@, "commit")]
    ELSE s

\* A mutation of rollback: conn.rollback() is called without the guard.
rollback_NoGuard(s) ==
    IF s.conn
    THEN [s EXCEPT !.txn = {}, !.calls = Append(@, "rollback")]
    ELSE [s EXCEPT !.exc = TRUE]

rollback(s) ==
    IF s.conn
    THEN [s EXCEPT !.txn = {}, !.calls = Append(@, "rollback")]
    ELSE s

switch_database(s, dbname, ok) ==
    IF s.info = NoInfo
    THEN s
    ELSE connect(s, [name |-> s.info.name, dbname |-> dbname], ok)

\* A metadata query (get_databases, get_schemas, get_tables, get_all_tables,
\* get_all_columns, get_primary_keys): one statement on the connection, or
\* nothing at all when not connected.
metadata(s) ==
    IF s.conn THEN [s EXCEPT !.calls = Append(@, "metadata")] ELSE s

get_schemas(s) == IF s.conn THEN <<"public">> ELSE <<>>

get_tables(s, schema) ==
    IF s.conn /\ schema = "public" THEN TablesOf(s.info.dbname) ELSE {}

get_primary_keys(s, schema, table) ==
    IF s.conn /\ schema = "public" /\ table \in TablesOf(s.info.dbname)
    THEN Catalog(s.info.dbname)[table]
    ELSE <<>>

\* The work of UPDATE schema.table SET column = new_value WHERE pk_columns = pk_values
UpdateOf(schema, table, pk_values, column, new_value) ==
    [kind |-> "update", schema |-> schema, table |-> table, pk |-> pk_values,
     column |-> column, value |-> new_value]

\* A mutation of execute_update: the UPDATE is committed as soon as it succeeds.
execute_update_AutoCommits(s, schema, table, pk_columns, pk_values, column, new_value, ok) ==
    IF ~s.conn
    THEN [s |-> s, error |-> "Not connected"]
    ELSE IF pk_columns = <<>>
    THEN [s |-> s, error |-> "No primary key - cannot update"]
    ELSE IF ok
    THEN [s |-> [s EXCEPT !.done = @ \cup s.txn \cup {UpdateOf(schema, table, pk_values,
                                                               column, new_value)},
                          !.txn = {},
                          !.calls = @ \o <<"update", "commit">>],
          error |-> NoError]
    ELSE [s |-> [s EXCEPT !.txn = {}, !.calls = @ \o <<"update", "rollback">>],
          error |-> "psycopg.Error"]

\* A mutation of execute_update: the key list is not looked at.
execute_update_NoKeyCheck(s, schema, table, pk_columns, pk_values, column, new_value, ok) ==
    IF ~s.conn
    THEN [s |-> s, error |-> "Not connected"]
    ELSE IF ok
    THEN [s |-> [s EXCEPT !.txn = @ \cup {UpdateOf(schema, table, pk_values,
                                                   column, new_value)},
                          !.calls = Append(@, "update")],
          error |-> NoError]
    ELSE [s |-> [s EXCEPT !.txn = {}, !.calls = @ \o <<"update", "rollback">>],
          error |-> "psycopg.Error"]

\* Database.execute_update: the UPDATE of one cell.  Returns the session and the
\* error text (NoError on success).  ok: the statement succeeds on the server.
execute_update(s, schema, table, pk_columns, pk_values, column, new_value, ok) ==
    IF ~s.conn
    THEN [s |-> s, error |-> "Not connected"]
    ELSE IF pk_columns = <<>>
    THEN [s |-> s, error |-> "No primary key - cannot update"]
    ELSE IF ok
    THEN [s |-> [s EXCEPT !.txn = @ \cup {UpdateOf(schema, table, pk_values,
                                                   column, new_value)},
                          !.calls = Append(@, "update")],
          error |-> NoError]
    ELSE [s |-> [s EXCEPT !.txn = {}, !.calls = @ \o <<"update", "rollback">>],
          error |-> "psycopg.Error"]


(***************************************************************************)
(* ui.py: ResultsModel.  A model value m is                                *)
(*   data, columns : the fetched rows (column name -> value) and columns   *)
(*   edits         : the edit overlay, (row, col) -> new value             *)
(*   schema, table, pk_columns : the bound table reference                 *)
(*   is_error      : the error-marker flag                                 *)
(* Rows and columns are numbered from 1.                                   *)
(***************************************************************************)
EmptyModel ==
    [data |-> <<>>, columns |-> <<>>, edits |-> NoEdits,
     pk_columns |-> <<>>, schema |-> "", table |-> "", is_error |-> FALSE]

\* A mutation of set_data: the edits are not cleared.
set_data_KeepsEdits(m, rows, columns) ==
    [m EXCEPT !.data = rows, !.columns = columns,
              !.is_error = (Len(columns) = 1 /\ columns[1] = "Error")]

\* ResultsModel.set_data
set_data(m, rows, columns) ==
    [m EXCEPT !.data = rows, !.columns = columns, !.edits = NoEdits,
              !.is_error = (Len(columns) = 1 /\ columns[1] = "Error")]

\* ResultsModel.set_table_info
set_table_info(m, schema, table, pk_columns) ==
    [m EXCEPT !.schema = schema, !.table = table, !.pk_columns = pk_columns]

\* ResultsModel.clear_edits
clear_edits(m) == [m EXCEPT !.edits = NoEdits]

\* ResultsModel.clear
clear(m) ==
    [m EXCEPT !.data = <<>>, !.columns = <<>>, !.edits = NoEdits, !.is_error = FALSE]

has_edits(m) == DOMAIN m.edits # {}

edit_count(m) == Cardinality(DOMAIN m.edits)

\* The indexes of the cells of the grid (index.isValid()).
ValidIndexes(m) == (1 .. Len(m.data)) \X (1 .. Len(m.columns))

\* self._data[row].get(self._columns[col])
Original(m, row, col) == m.data[row][m.columns[col]]

\* ResultsModel.data(index, EditRole): the edit if there is one, else the original.
EditRoleData(m, row, col) ==
    IF <<row, col>> \in DOMAIN m.edits THEN m.edits[<<row, col>>]
                                       ELSE Original(m, row, col)

\* A mutation of setData: the new value is compared against the value the cell
\* shows (the pending edit if any) instead of the original fetched value.
setData_ComparesShown(m, row, col, value) ==
    IF value # EditRoleData(m, row, col)
    THEN [m EXCEPT !.edits = [c \in DOMAIN m.edits \cup {<<row, col>>} |->
                                 IF c = <<row, col>> THEN value ELSE m.edits[c]]]
    ELSE m

\* A mutation of setData: a write of the original value leaves the edit in place.
setData_NeverRemoves(m, row, col, value) ==
    IF value # Original(m, row, col)
    THEN [m EXCEPT !.edits = [c \in DOMAIN m.edits \cup {<<row, col>>} |->
                                 IF c = <<row, col>> THEN value ELSE m.edits[c]]]
    ELSE m

\* ResultsModel.setData(index, value, EditRole)
setData(m, row, col, value) ==
    IF value # Original(m, row, col)
    THEN [m EXCEPT !.edits = [c \in DOMAIN m.edits \cup {<<row, col>>} |->
                                 IF c = <<row, col>> THEN value ELSE m.edits[c]]]
    ELSE IF <<row, col>> \in DOMAIN m.edits
    THEN [m EXCEPT !.edits = [c \in DOMAIN m.edits \ {<<row, col>>} |-> m.edits[c]]]
    ELSE m

\* A mutation of flags: the primary-key list is not looked at.
flags_IgnoresKeys(m) == m.table # ""

\* ResultsModel.flags: TRUE iff Qt.ItemIsEditable is set.
flags(m) == m.table # "" /\ m.pk_columns # <<>>

\* The cells of a set as a list.  The dict iterates in the order of insertion;
\* the list is in row-major order here, and what _commit_changes does with it
\* (every UPDATE is issued, and any error rolls back) does not depend on the order.
RECURSIVE CellsInOrder(_)
CellsInOrder(S) ==
    IF S = {} THEN <<>>
    ELSE LET c == CHOOSE x \in S : \A y \in S :
                      x[1] < y[1] \/ (x[1] = y[1] /\ x[2] <= y[2])
         IN <<c>> \o CellsInOrder(S \ {c})

\* ResultsModel.get_pending_edits: (pk_values, column, new_value) per edit, with
\* the cell it comes from.  A key column that is not among the fetched columns
\* reads as Null (dict.get).
get_pending_edits(m) ==
    LET cells == CellsInOrder(DOMAIN m.edits)
        pkv(row) == [i \in 1 .. Len(m.pk_columns) |->
                        IF m.pk_columns[i] \in DOMAIN m.data[row]
                        THEN m.data[row][m.pk_columns[i]] ELSE Null]
    IN [i \in 1 .. Len(cells) |->
           [cell |-> cells[i], pk_values |-> pkv(cells[i][1]),
            column |-> m.columns[cells[i][2]], new_value |-> m.edits[cells[i]]]]


(***************************************************************************)
(* SQL text.  A text is written out piece by piece, and the pieces touch:  *)
(* a piece is a word (a maximal run of letters, digits and underscores), a *)
(* run of whitespace (" ", or "\n" for one with a line break in it), or    *)
(* one punctuation character.                                              *)
(***************************************************************************)
DQ == "\""

Upper(tok) ==
    CASE tok = "select" -> "SELECT"
      [] tok = "from"   -> "FROM"
      [] tok = "join"   -> "JOIN"
      [] tok = "limit"  -> "LIMIT"
      [] tok = "update" -> "UPDATE"
      [] tok = "unlimited" -> "UNLIMITED"
      [] OTHER          -> tok

At(q, i) == IF i \in 1 .. Len(q) THEN q[i] ELSE ""

\* \s
Space == {" ", "\n"}

\* [a-zA-Z_][a-zA-Z0-9_]* matches the whole piece
IsIdentifier(tok) ==
    tok \notin {"", DQ, ".", "*", ",", "(", ")", "=", ";", "1"} \cup Space

\* query.upper().startswith("SELECT")
StartsWithSelect(q) == Len(q) > 0 /\ Upper(q[1]) = "SELECT"

\* A mutation of HasJoin: the text is searched as typed, not in upper case.
HasJoin_CaseSensitive(q) ==
    \E i \in 1 .. Len(q) : q[i] = "JOIN" /\ At(q, i-1) = " " /\ At(q, i+1) = " "

\* " JOIN " in query_upper: the word between two blanks
HasJoin(q) ==
    \E i \in 1 .. Len(q) : Upper(q[i]) = "JOIN" /\ At(q, i-1) = " " /\ At(q, i+1) = " "

\* \s* from position j on: the position after it
Skip(q, j) == IF At(q, j) \in Space THEN j + 1 ELSE j

\* FROM\s+ at piece i (re.IGNORECASE)
FromAt(q, i) == Upper(At(q, i)) = "FROM" /\ At(q, i+1) \in Space

\* "([^"]+)" at piece j, the quotes holding one piece
Quoted(q, j) == At(q, j) = DQ /\ At(q, j+1) \notin {"", DQ} /\ At(q, j+2) = DQ

\* (?:\s|$|WHERE|ORDER|GROUP|LIMIT) at piece j
Follows(q, j) ==
    At(q, j) \in Space \cup {""} \/ Upper(At(q, j)) \in {"WHERE", "ORDER", "GROUP", "LIMIT"}

\* The longest beginning of a word after which WHERE, ORDER, GROUP or LIMIT
\* goes on inside the word, in any case ("" when there is none): the
\* identifier the fourth pattern backtracks to.
BeforeKeyword(tok) ==
    CASE tok = "border" -> "b"
      [] tok = "tWHERE" -> "t"
      [] OTHER          -> ""

\* The four patterns, matching from the FROM at piece i.
Pattern1(q, i) ==
    /\ FromAt(q, i) /\ Quoted(q, i+2)
    /\ At(q, Skip(q, i+5)) = "."
    /\ Quoted(q, Skip(q, Skip(q, i+5) + 1))

Pattern2(q, i) ==
    /\ FromAt(q, i) /\ IsIdentifier(At(q, i+2))
    /\ At(q, Skip(q, i+3)) = "."
    /\ IsIdentifier(At(q, Skip(q, Skip(q, i+3) + 1)))

Pattern3(q, i) == FromAt(q, i) /\ Quoted(q, i+2) /\ Follows(q, i+5)

Pattern4(q, i) ==
    /\ FromAt(q, i) /\ IsIdentifier(At(q, i+2))
    /\ Follows(q, i+3) \/ BeforeKeyword(At(q, i+2)) # ""

\* match.group(1), match.group(2) of pattern n matching at piece i
Groups(q, n, i) ==
    CASE n = 1 -> <<At(q, i+3), At(q, Skip(q, Skip(q, i+5) + 1) + 1)>>
      [] n = 2 -> <<At(q, i+2), At(q, Skip(q, Skip(q, i+3) + 1))>>
      [] n = 3 -> <<"public", At(q, i+3)>>
      [] n = 4 -> <<"public", IF Follows(q, i+3) THEN At(q, i+2)
                              ELSE BeforeKeyword(At(q, i+2))>>

Matches(q, n, i) ==
    CASE n = 1 -> Pattern1(q, i)
      [] n = 2 -> Pattern2(q, i)
      [] n = 3 -> Pattern3(q, i)
      [] n = 4 -> Pattern4(q, i)

\* A mutation of _parse_table_from_query: the leftmost FROM that matches any
\* pattern decides, whichever pattern it is.
_parse_table_from_query_LeftmostFirst(q) ==
    LET hits == {i \in 1 .. Len(q) : \E n \in 1 .. 4 : Matches(q, n, i)}
    IN IF HasJoin(q) \/ hits = {} THEN <<"", "">>
       ELSE LET i == CHOOSE i \in hits : \A j \in hits : i <= j
                n == CHOOSE n \in 1 .. 4 :
                         Matches(q, n, i) /\ \A k \in 1 .. n - 1 : ~Matches(q, k, i)
            IN Groups(q, n, i)

\* MainWindow._parse_table_from_query: re.search finds the leftmost match of a
\* pattern, and the patterns are tried in order.
_parse_table_from_query(q) ==
    LET some(n) == \E i \in 1 .. Len(q) : Matches(q, n, i)
        first(n) == CHOOSE i \in 1 .. Len(q) :
                        Matches(q, n, i) /\ \A j \in 1 .. i-1 : ~Matches(q, n, j)
    IN IF HasJoin(q) THEN <<"", "">>
       ELSE IF \E n \in 1 .. 4 : some(n)
       THEN LET n == CHOOSE n \in 1 .. 4 : some(n) /\ \A k \in 1 .. n - 1 : ~some(k)
            IN Groups(q, n, first(n))
       ELSE <<"", "">>

\* The texts the user types into the editor.
EditorTexts ==
    { <<"SELECT", " ", "*", " ", "FROM", " ", "t1">>,
      <<"select", " ", "1">>,
      <<"UPDATE", " ", "t1", " ", "SET", " ", "v", " ", "=", " ", "1">>,
      <<>> }

\* Texts whose select list gives a column another name.
AliasTexts ==
    { <<"SELECT", " ", "v", " ", "AS", " ", DQ, "Error", DQ, " ", "FROM", " ", "t1">>,
      <<"SELECT", " ", "v", " ", "AS", " ", DQ, "Error", DQ>>,
      <<"SELECT", " ", "v", " ", "AS", " ", DQ, "w", DQ, " ", "FROM", " ", "t1">> }

\* The column names the server gives to the select list of a text
\* (cur.description): the columns of the table, or the one alias.
ColumnsOf(q) ==
    IF \E i \in 1 .. Len(q) : At(q, i) = "AS" /\ Quoted(q, i+2)
    THEN LET i == CHOOSE i \in 1 .. Len(q) : At(q, i) = "AS" /\ Quoted(q, i+2)
         IN <<At(q, i+3)>>
    ELSE Columns

\* The text _on_tree_double_click writes into the editor.
TableQuery(schema, table, pk_columns) ==
    <<"SELECT", " ", "*", " ", "FROM", " ", DQ, schema, DQ, ".", DQ, table, DQ>> \o
    (IF pk_columns # <<>>
     THEN <<" ", "ORDER", " ", "BY", " ", DQ, pk_columns[1], DQ, " ", "ASC">>
     ELSE <<>>)

(***************************************************************************)
(* ui.py: MainWindow.                                                      *)
(***************************************************************************)
\* What a step records in the variable last.
Step(op) ==
    [op        |-> op,     \* the handler or worker step
     used      |-> FALSE,  \* it made a call on a connection
     raised    |-> FALSE,  \* it ended with an uncaught exception
     prompt    |-> "none", \* the user's answer to its confirmation prompt
     outcome   |-> "none", \* what _execute_query, _commit_changes did
     committed |-> {},     \* the work its commit made durable
     emitted   |-> 0]      \* the finished-signals a worker's run emitted

\* The step made a call on a connection.
Used(s) == s.calls # <<>>

\* A handler of the interactive thread that closes a connection closes it under
\* the worker that is executing a statement on it.
Disturbed(ths, s) ==
    IF s.gone
    THEN {[t EXCEPT !.handle = IF @ = "open" THEN "closed" ELSE @] : t \in ths}
    ELSE ths

\* QueryWorker(db, query), started.  A thread is
\*   select : the text it was given starts with SELECT (all that execute_query
\*            looks at)
\*   pc     : "ready" (started), "exec" (its statement is on the connection)
\*   handle : the connection its statement runs on: "none", "open", "closed"
\*   cur    : it is the thread self.worker refers to
\*   columns: the column names of the text's select list
QueryWorker(query) ==
    [select |-> StartsWithSelect(query), pc |-> "ready", handle |-> "none", cur |-> TRUE,
     columns |-> ColumnsOf(query)]

\* self.worker and self.worker.isRunning()
worker_isRunning(ths) == \E t \in ths : t.cur

\* MainWindow._on_edits_changed: the new enabled state of commit and rollback.
_on_edits_changed(count) == count > 0

\* A mutation of _check_uncommitted_changes: an accepted discard clears the
\* edits without rolling the transaction back.
_check_uncommitted_changes_NoRollback(s, m, enabled, answer) ==
    IF has_edits(m)
    THEN IF answer = "no"
         THEN [proceed |-> FALSE, s |-> s, m |-> m, enabled |-> enabled, prompt |-> "no"]
         ELSE [proceed |-> TRUE, s |-> s, m |-> clear_edits(m),
               enabled |-> FALSE, prompt |-> "yes"]
    ELSE [proceed |-> TRUE, s |-> s, m |-> m, enabled |-> enabled, prompt |-> "none"]

\* MainWindow._check_uncommitted_changes.  answer: the user's answer to the prompt.
_check_uncommitted_changes(s, m, enabled, answer) ==
    IF has_edits(m)
    THEN IF answer = "no"
         THEN [proceed |-> FALSE, s |-> s, m |-> m, enabled |-> enabled, prompt |-> "no"]
         ELSE [proceed |-> TRUE, s |-> rollback(s), m |-> clear_edits(m),
               enabled |-> FALSE, prompt |-> "yes"]
    ELSE [proceed |-> TRUE, s |-> s, m |-> m, enabled |-> enabled, prompt |-> "none"]

\* A mutation of _execute_query: the check of a running worker is left out.
_execute_query_NoRunningCheck(s, m, enabled, ths, pend, query, schema, table, answer) ==
    LET keep(req) == [request |-> req, s |-> s, m |-> m, enabled |-> enabled,
                      threads |-> ths, pending |-> pend, prompt |-> "none"]
        sel == StartsWithSelect(query)
        ref == IF table = "" /\ sel THEN _parse_table_from_query(query)
                                    ELSE <<schema, table>>
    IN IF ~is_connected(s) THEN keep("not connected")
       ELSE IF query = <<>> THEN keep("no query")
       ELSE [request |-> "dispatched", s |-> s, m |-> m, enabled |-> enabled,
             threads |-> {[t EXCEPT !.cur = FALSE] : t \in ths} \cup
                         {QueryWorker(query)},
             pending |-> ref, prompt |-> "none"]

\* MainWindow._execute_query, up to worker.start().
_execute_query(s, m, enabled, ths, pend, query, schema, table, answer) ==
    LET keep(req) == [request |-> req, s |-> s, m |-> m, enabled |-> enabled,
                      threads |-> ths, pending |-> pend, prompt |-> "none"]
        sel == StartsWithSelect(query)
        chk == IF sel /\ has_edits(m)
               THEN _check_uncommitted_changes(s, m, enabled, answer)
               ELSE [proceed |-> TRUE, s |-> s, m |-> m, enabled |-> enabled,
                     prompt |-> "none"]
        ref == IF table = "" /\ sel THEN _parse_table_from_query(query)
                                    ELSE <<schema, table>>
    IN IF ~is_connected(s) THEN keep("not connected")
       ELSE IF worker_isRunning(ths) THEN keep("already running")
       ELSE IF query = <<>> THEN keep("no query")
       ELSE IF ~chk.proceed THEN [keep("declined") EXCEPT !.prompt = chk.prompt]
       ELSE [request |-> "dispatched", s |-> chk.s, m |-> chk.m,
             enabled |-> chk.enabled,
             threads |-> {[t EXCEPT !.cur = FALSE] : t \in ths} \cup
                         {QueryWorker(query)},
             pending |-> ref, prompt |-> chk.prompt]


Init ==
    /\ db = [conn |-> FALSE, info |-> NoInfo, txn |-> {}]
    /\ threads = {}
    /\ inbox = <<>>
    /\ results_model = EmptyModel
    /\ pending = <<"", "">>
    /\ pending_dml_changes = NotSet
    /\ original_info = NoInfo
    /\ actions_enabled = FALSE
    /\ results_stack = 0
    /\ tree = "empty"
    /\ last = Step("init")

\* MainWindow._show_connect_dialog, accepted with a profile, and _connect_to_db
\* with _load_databases (also the auto-connect of __init__).
_connect_to_db(info, ok) ==
    LET s1 == connect(Session(db), info, ok)
        \* _update_completions (two lookups) and get_databases
        s2 == metadata(metadata(metadata(s1)))
    IN /\ IF ok
          THEN /\ db' = Stored(s2)
               /\ original_info' = s2.info
               /\ tree' = "loaded"
               /\ last' = [Step("connect") EXCEPT !.used = Used(s2)]
          ELSE /\ db' = Stored(s1)
               /\ UNCHANGED <<original_info, tree>>
               /\ last' = [Step("connect") EXCEPT !.used = Used(s1)]
       /\ threads' = Disturbed(threads, s1)
       /\ UNCHANGED <<inbox, results_model, pending, pending_dml_changes,
                      actions_enabled, results_stack>>

\* MainWindow._on_tree_expand on an item of database dbname (the database item
\* or one of its schema items) that still has its placeholder child; the two
\* branches differ only in the lookup (get_schemas, get_tables) and in the
\* children they add.  The server has databases and schemas enough for such
\* an item, and a table item, to be there whenever the tree is loaded.
\* ok1, ok2: the two connects succeed.
_on_tree_expand(dbname, ok1, ok2) ==
    /\ tree = "loaded"
    /\ LET s1 == switch_database(Session(db), dbname, ok1)
           s2 == metadata(s1)
           s3 == IF original_info # NoInfo THEN connect(s2, original_info, ok2) ELSE s2
       IN IF s1.exc
          THEN /\ db' = Stored(s1)
               /\ threads' = Disturbed(threads, s1)
               /\ last' = [Step("tree expand") EXCEPT !.used = Used(s1), !.raised = TRUE]
          ELSE /\ db' = Stored(s3)
               /\ threads' = Disturbed(threads, s3)
               /\ last' = [Step("tree expand") EXCEPT !.used = Used(s3),
                                                      !.raised = s3.exc]
    /\ UNCHANGED <<inbox, results_model, pending, pending_dml_changes, original_info,
                   actions_enabled, results_stack, tree>>

\* MainWindow._execute_query triggered by the Execute action, with the editor
\* holding query.
ExecuteAction(query, answer) ==
    LET r == _execute_query(Session(db), results_model, actions_enabled, threads,
                            pending, query, "", "", answer)
    IN /\ db' = Stored(r.s)
       /\ results_model' = r.m
       /\ actions_enabled' = r.enabled
       /\ threads' = r.threads
       /\ pending' = r.pending
       /\ last' = [Step("execute") EXCEPT !.used = Used(r.s), !.prompt = r.prompt,
                                          !.outcome = r.request]
       /\ UNCHANGED <<inbox, pending_dml_changes, original_info, results_stack, tree>>

\* MainWindow._on_tree_double_click on a table item.
_on_tree_double_click(dbname, table, answer, ok) ==
    /\ tree = "loaded"
    /\ table \in TablesOf(dbname)
    /\ LET chk == _check_uncommitted_changes(Session(db), results_model,
                                             actions_enabled, answer)
           s1 == switch_database(chk.s, dbname, ok)
           \* _update_completions (two lookups) and get_primary_keys
           s2 == metadata(metadata(metadata(s1)))
           pk_columns == get_primary_keys(s1, "public", table)
           r == _execute_query(s2, chk.m, chk.enabled, Disturbed(threads, s1), pending,
                               TableQuery("public", table, pk_columns),
                               "public", table, answer)
           step == [Step("double click") EXCEPT !.prompt = chk.prompt]
       IN IF ~chk.proceed
          THEN /\ last' = step
               /\ UNCHANGED <<db, threads, results_model, pending, original_info,
                              actions_enabled>>
          ELSE IF s1.exc \/ s1.info = NoInfo
          THEN \* the connect raised, or self.db.info.name on None
               /\ db' = Stored(s1)
               /\ threads' = Disturbed(threads, s1)
               /\ results_model' = chk.m
               /\ actions_enabled' = chk.enabled
               /\ original_info' = IF s1.exc THEN original_info ELSE s1.info
               /\ last' = [step EXCEPT !.used = Used(s1), !.raised = TRUE]
               /\ UNCHANGED pending
          ELSE /\ db' = Stored(r.s)
               /\ threads' = r.threads
               /\ results_model' = r.m
               /\ actions_enabled' = r.enabled
               /\ original_info' = s1.info
               /\ pending' = r.pending
               /\ last' = [step EXCEPT !.used = Used(r.s), !.outcome = r.request]
    /\ UNCHANGED <<inbox, pending_dml_changes, results_stack, tree>>


(***************************************************************************)
(* ui.py: QueryWorker.run, and Database.execute_query which it calls.      *)
(***************************************************************************)
Completion(rows, columns, error, rowcount) ==
    [rows |-> rows, columns |-> columns, error |-> error, rowcount |-> rowcount]

\* What the server can answer to a statement: an error, the rows of a SELECT,
\* or the affected-row count of another statement.
Outcomes(select) ==
    {[ok |-> FALSE, rows |-> <<>>, columns |-> <<>>, rowcount |-> 0]} \cup
    (IF select
     THEN {[ok |-> TRUE, rows |-> r, columns |-> Columns, rowcount |-> Len(r)] :
              r \in RowSets}
     ELSE {[ok |-> TRUE, rows |-> <<>>, columns |-> <<>>, rowcount |-> n] :
              n \in 1 .. MaxRows})

\* The answer of the server to a text whose select list is one column under an
\* alias: the rows of the table, reduced to column v under that name.
Answer(out, columns) ==
    IF out.ok /\ out.columns # <<>> /\ columns # out.columns
    THEN [out EXCEPT !.columns = columns,
                     !.rows = [i \in 1 .. Len(out.rows) |->
                                  [c \in {columns[1]} |-> out.rows[i]["v"]]]]
    ELSE out

\* A mutation of execute_query: the except clause returns the error without
\* rolling the transaction back.
execute_query_NoRollback(s, handle, select, out, early) ==
    LET failed == [s |-> [s EXCEPT !.calls = Append(@, "execute")], raised |-> FALSE,
                   result |-> Completion(<<>>, <<>>, "psycopg.Error", 0)]
    IN IF handle = "closed"
       THEN IF s.conn /\ ~early THEN failed
            ELSE [s |-> s, raised |-> TRUE, result |-> Completion(<<>>, <<>>, "", 0)]
       ELSE IF ~out.ok THEN failed
       ELSE IF select
       THEN [s |-> [s EXCEPT !.calls = Append(@, "execute")], raised |-> FALSE,
             result |-> Completion(out.rows, out.columns, NoError, Len(out.rows))]
       ELSE [s |-> [s EXCEPT !.txn = @ \cup {[kind |-> "dml"]},
                             !.calls = Append(@, "execute")],
             raised |-> FALSE,
             result |-> Completion(<<>>, <<>>, NoError, out.rowcount)]

\* Database.execute_query from the try on: the statement runs on the connection
\* the call took (handle), and the except clause rolls back on self.conn as it
\* is by then.  When the connection was closed under the statement, the
\* statement fails, and self.conn is read unsynchronised: the closed connection
\* or None while the closing handler had not opened the next one (early: the
\* rollback raises), or the connection that is current.  Returns the session,
\* the returned tuple and whether an exception left the call.
execute_query(s, handle, select, out, early) ==
    LET failed == [s |-> rollback(s), raised |-> FALSE,
                   result |-> Completion(<<>>, <<>>, "psycopg.Error", 0)]
    IN IF handle = "closed"
       THEN IF s.conn /\ ~early THEN failed
            ELSE [s |-> s, raised |-> TRUE, result |-> Completion(<<>>, <<>>, "", 0)]
       ELSE IF ~out.ok THEN failed
       ELSE IF select
       THEN [s |-> [s EXCEPT !.calls = Append(@, "execute")], raised |-> FALSE,
             result |-> Completion(out.rows, out.columns, NoError, Len(out.rows))]
       ELSE [s |-> [s EXCEPT !.txn = @ \cup {[kind |-> "dml"]},
                             !.calls = Append(@, "execute")],
             raised |-> FALSE,
             result |-> Completion(<<>>, <<>>, NoError, out.rowcount)]

\* QueryWorker.run enters execute_query: not connected, or the call takes the
\* connection and sends the statement.
WorkerBegin(t) ==
    /\ t \in threads
    /\ t.pc = "ready"
    /\ IF ~db.conn
       THEN /\ Len(inbox) < MaxInbox
            /\ inbox' = Append(inbox, Completion(<<>>, <<>>, "Not connected", 0))
            /\ threads' = threads \ {t}
            /\ last' = [Step("worker run") EXCEPT !.emitted = 1]
       ELSE /\ threads' = (threads \ {t}) \cup {[t EXCEPT !.pc = "exec", !.handle = "open"]}
            /\ last' = Step("worker begin")
            /\ UNCHANGED inbox
    /\ UNCHANGED <<db, results_model, pending, pending_dml_changes, original_info,
                   actions_enabled, results_stack, tree>>

\* The statement completes, execute_query returns and run emits finished; or an
\* exception leaves run and the thread ends without emitting.  The step records
\* whether the statement raised a psycopg.Error inside execute_query.
WorkerExecute(t, out, early) ==
    /\ t \in threads
    /\ t.pc = "exec"
    /\ out \in Outcomes(t.select)
    /\ LET r == execute_query(Session(db), t.handle, t.select,
                              Answer(out, t.columns), early)
           step == [Step("worker run") EXCEPT
                       !.outcome = IF r.raised \/ r.result.error # NoError
                                   THEN "statement failed" ELSE "none"]
       IN /\ db' = Stored(r.s)
          /\ threads' = threads \ {t}
          /\ IF r.raised
             THEN /\ inbox' = inbox
                  /\ last' = [step EXCEPT !.raised = TRUE, !.used = Used(r.s)]
             ELSE /\ Len(inbox) < MaxInbox
                  /\ inbox' = Append(inbox, r.result)
                  /\ last' = [step EXCEPT !.emitted = 1, !.used = Used(r.s)]
    /\ UNCHANGED <<results_model, pending, pending_dml_changes, original_info,
                   actions_enabled, results_stack, tree>>

\* A mutation of _on_query_finished: the error text is not looked at.
_on_query_finished_IgnoresError ==
    /\ inbox # <<>>
    /\ LET c == Head(inbox)
           s == Session(db)
           m1 == set_data(results_model, c.rows, c.columns)
           schema == pending[1]
           table == pending[2]
           bound == schema # "" /\ table # ""
           s1 == IF bound THEN metadata(s) ELSE s
           m2 == IF bound
                 THEN set_table_info(m1, schema, table, get_primary_keys(s, schema, table))
                 ELSE set_table_info(m1, "", "", <<>>)
       IN /\ inbox' = Tail(inbox)
          /\ IF FALSE
             THEN /\ results_stack' = 1
                  /\ last' = Step("query finished")
                  /\ UNCHANGED <<results_model, actions_enabled, pending_dml_changes>>
             ELSE IF c.columns # <<>>
             THEN /\ results_stack' = 0
                  /\ results_model' = m2
                  /\ actions_enabled' = _on_edits_changed(0)
                  /\ last' = [Step("query finished") EXCEPT !.used = Used(s1)]
                  /\ UNCHANGED pending_dml_changes
             ELSE /\ results_stack' = 1
                  /\ pending_dml_changes' = <<c.rowcount>>
                  /\ actions_enabled' = TRUE
                  /\ last' = Step("query finished")
                  /\ UNCHANGED results_model
    /\ UNCHANGED <<db, threads, pending, original_info, tree>>

\* MainWindow._on_query_finished: the queued finished-signal is delivered.
_on_query_finished ==
    /\ inbox # <<>>
    /\ LET c == Head(inbox)
           s == Session(db)
           m1 == set_data(results_model, c.rows, c.columns)
           schema == pending[1]
           table == pending[2]
           bound == schema # "" /\ table # ""
           s1 == IF bound THEN metadata(s) ELSE s
           m2 == IF bound
                 THEN set_table_info(m1, schema, table, get_primary_keys(s, schema, table))
                 ELSE set_table_info(m1, "", "", <<>>)
       IN /\ inbox' = Tail(inbox)
          /\ IF c.error # ""
             THEN /\ results_stack' = 1
                  /\ last' = Step("query finished")
                  /\ UNCHANGED <<results_model, actions_enabled, pending_dml_changes>>
             ELSE IF c.columns # <<>>
             THEN /\ results_stack' = 0
                  /\ results_model' = m2
                  /\ actions_enabled' = _on_edits_changed(0)
                  /\ last' = [Step("query finished") EXCEPT !.used = Used(s1)]
                  /\ UNCHANGED pending_dml_changes
             ELSE /\ results_stack' = 1
                  /\ pending_dml_changes' = <<c.rowcount>>
                  /\ actions_enabled' = TRUE
                  /\ last' = Step("query finished")
                  /\ UNCHANGED results_model
    /\ UNCHANGED <<db, threads, pending, original_info, tree>>

\* The user edits a cell of the grid: TypeAwareDelegate.setModelData calls
\* ResultsModel.setData, which emits editsChanged.
CellEdit(row, col, value) ==
    /\ results_stack = 0
    /\ flags(results_model)
    /\ <<row, col>> \in ValidIndexes(results_model)
    /\ LET m == setData(results_model, row, col, value)
       IN /\ results_model' = m
          /\ actions_enabled' = _on_edits_changed(edit_count(m))
    /\ last' = Step("cell edit")
    /\ UNCHANGED <<db, threads, inbox, pending, pending_dml_changes, original_info,
                   results_stack, tree>>

\* The loop of _commit_changes over the pending edits; failing: the cells whose
\* UPDATE the server rejects.
RECURSIVE UpdateEach(_, _, _, _)
UpdateEach(s, m, edits, failing) ==
    IF edits = <<>>
    THEN [s |-> s, errors |-> 0]
    ELSE LET e == Head(edits)
             r == execute_update(s, m.schema, m.table, m.pk_columns, e.pk_values,
                                 e.column, e.new_value, e.cell \notin failing)
             rest == UpdateEach(r.s, m, Tail(edits), failing)
         IN [s |-> rest.s,
             errors |-> rest.errors + (IF r.error # NoError THEN 1 ELSE 0)]

\* A mutation of _commit_changes: the transaction is committed before the edit
\* set is cleared.
_commit_changes_CommitsFirst(failing, commit_ok) ==
    /\ actions_enabled
    /\ LET m == results_model
           u == UpdateEach(Session(db), m, get_pending_edits(m), failing)
           edited == has_edits(m)
           s1 == IF edited THEN u.s ELSE Session(db)
           s2 == commit(s1, commit_ok)
       IN IF edited /\ m.pk_columns = <<>>
          THEN /\ last' = [Step("commit") EXCEPT !.outcome = "no primary key"]
               /\ UNCHANGED <<db, results_model, actions_enabled>>
          ELSE IF edited /\ u.errors > 0
          THEN /\ db' = Stored(rollback(u.s))
               /\ last' = [Step("commit") EXCEPT !.used = Used(rollback(u.s)),
                                                 !.outcome = "update failed"]
               /\ UNCHANGED <<results_model, actions_enabled>>
          ELSE /\ db' = Stored(s2)
               /\ results_model' = IF edited /\ ~s2.exc THEN clear_edits(m) ELSE m
               /\ actions_enabled' = IF s2.exc
                                     THEN actions_enabled
                                     ELSE FALSE
               /\ last' = [Step("commit") EXCEPT
                              !.used = Used(s2), !.raised = s2.exc,
                              !.outcome = IF s2.exc THEN "commit failed" ELSE "committed",
                              !.committed = s2.done]
    /\ UNCHANGED <<threads, inbox, pending, pending_dml_changes, original_info,
                   results_stack, tree>>

\* MainWindow._commit_changes.  commit_ok: conn.commit() succeeds.
_commit_changes(failing, commit_ok) ==
    /\ actions_enabled
    /\ LET m == results_model
           u == UpdateEach(Session(db), m, get_pending_edits(m), failing)
           edited == has_edits(m)
           s1 == IF edited THEN u.s ELSE Session(db)
           s2 == commit(s1, commit_ok)
       IN IF edited /\ m.pk_columns = <<>>
          THEN /\ last' = [Step("commit") EXCEPT !.outcome = "no primary key"]
               /\ UNCHANGED <<db, results_model, actions_enabled>>
          ELSE IF edited /\ u.errors > 0
          THEN /\ db' = Stored(rollback(u.s))
               /\ last' = [Step("commit") EXCEPT !.used = Used(rollback(u.s)),
                                                 !.outcome = "update failed"]
               /\ UNCHANGED <<results_model, actions_enabled>>
          ELSE /\ db' = Stored(s2)
               /\ results_model' = IF edited THEN clear_edits(m) ELSE m
               /\ actions_enabled' = IF s2.exc
                                     THEN (IF edited THEN _on_edits_changed(0)
                                                     ELSE actions_enabled)
                                     ELSE FALSE
               /\ last' = [Step("commit") EXCEPT
                              !.used = Used(s2), !.raised = s2.exc,
                              !.outcome = IF s2.exc THEN "commit failed" ELSE "committed",
                              !.committed = s2.done]
    /\ UNCHANGED <<threads, inbox, pending, pending_dml_changes, original_info,
                   results_stack, tree>>

\* MainWindow._rollback_changes
_rollback_changes ==
    /\ actions_enabled
    /\ LET s == rollback(Session(db))
       IN /\ db' = Stored(s)
          /\ last' = [Step("rollback") EXCEPT !.used = Used(s)]
    /\ results_model' = clear_edits(results_model)
    /\ actions_enabled' = FALSE
    /\ UNCHANGED <<threads, inbox, pending, pending_dml_changes, original_info,
                   results_stack, tree>>

\* The answers the user can give to the prompt of _check_uncommitted_changes
\* (there is a prompt only when cell edits are pending).
Answers == IF has_edits(results_model) THEN {"yes", "no"} ELSE {"yes"}

Next ==
    \/ \E info \in DialogProfiles, ok \in BOOLEAN : _connect_to_db(info, ok)
    \/ \E d \in Databases, ok1, ok2 \in BOOLEAN : _on_tree_expand(d, ok1, ok2)
    \/ \E q \in EditorTexts, answer \in Answers : ExecuteAction(q, answer)
    \/ \E d \in Databases, answer \in Answers, ok \in BOOLEAN :
           \E tb \in TablesOf(d) : _on_tree_double_click(d, tb, answer, ok)
    \/ \E t \in threads : WorkerBegin(t)
    \/ \E t \in threads : \E out \in Outcomes(t.select), early \in BOOLEAN :
           WorkerExecute(t, out, early)
    \/ _on_query_finished
    \/ \E row \in 1 .. MaxRows, col \in 1 .. Len(Columns), v \in Values :
           CellEdit(row, col, v)
    \/ \E failing \in SUBSET DOMAIN results_model.edits, commit_ok \in BOOLEAN :
           _commit_changes(failing, commit_ok)
    \/ _rollback_changes

Spec == Init /\ [][Next]_vars

(***************************************************************************)
(* The same window, with the user typing texts that rename a column, on    *)
(* the one database d1.                                                    *)
(***************************************************************************)
NextAlias ==
    \/ \E ok \in BOOLEAN : _connect_to_db([name |-> "c1", dbname |-> "d1"], ok)
    \/ \E q \in AliasTexts, answer \in Answers : ExecuteAction(q, answer)
    \/ \E t \in threads : WorkerBegin(t)
    \/ \E t \in threads : \E out \in Outcomes(t.select), early \in BOOLEAN :
           WorkerExecute(t, out, early)
    \/ _on_query_finished
    \/ \E row \in 1 .. MaxRows, col \in 1 .. Len(Columns), v \in Values :
           CellEdit(row, col, v)
    \/ \E failing \in SUBSET DOMAIN results_model.edits, commit_ok \in BOOLEAN :
           _commit_changes(failing, commit_ok)
    \/ _rollback_changes

SpecAlias == Init /\ [][NextAlias]_vars

(***************************************************************************)
(* The edit overlay on its own: one editable result of table public.t1 of  *)
(* d1 has been delivered, with any rows, and the user writes cells.        *)
(***************************************************************************)
MaxTyped == 2        \* the values written to a cell are 0..MaxTyped
MaxCellRows == 2     \* the result has 1..MaxCellRows rows
MaxCellFetched == 1  \* its fetched values are 0..MaxCellFetched

Typed == 0 .. MaxTyped

CellRowSets ==
    UNION {[1 .. n -> [{"id", "v"} -> 0 .. MaxCellFetched]] : n \in 1 .. MaxCellRows}

InitCells ==
    /\ db = [conn |-> TRUE, info |-> [name |-> "c1", dbname |-> "d1"], txn |-> {}]
    /\ threads = {}
    /\ inbox = <<>>
    /\ \E rows \in CellRowSets :
           results_model = set_table_info(set_data(EmptyModel, rows, Columns),
                                          "public", "t1", Catalog("d1")["t1"])
    /\ pending = <<"public", "t1">>
    /\ pending_dml_changes = NotSet
    /\ original_info = db.info
    /\ actions_enabled = FALSE
    /\ results_stack = 0
    /\ tree = "loaded"
    /\ last = [Step("query finished") EXCEPT !.used = TRUE]

NextCells ==
    \E row \in 1 .. MaxCellRows, col \in 1 .. Len(Columns), v \in Typed :
        CellEdit(row, col, v)

SpecCells == InitCells /\ [][NextCells]_vars

\* The window with the rows of public.t1 of database d1 in the grid (InitCells):
\* the user edits cells, accepts the connection dialog and commits; no query
\* is run, so the rows in the grid stay those fetched from d1.
NextReconnect ==
    \/ \E row \in 1 .. MaxCellRows, col \in 1 .. Len(Columns), v \in Typed :
           CellEdit(row, col, v)
    \/ \E info \in DialogProfiles, ok \in BOOLEAN : _connect_to_db(info, ok)
    \/ \E failing \in SUBSET DOMAIN results_model.edits, commit_ok \in BOOLEAN :
           _commit_changes(failing, commit_ok)

SpecReconnect == InitCells /\ [][NextReconnect]_vars

\* The window with one row of public.t1 of d1 in the grid and its cell v
\* edited; the user edits cells, and issues execute requests only in this very
\* state with no request under way.
EditedGrid ==
    [set_table_info(set_data(EmptyModel, <<[id |-> 0, v |-> 0]>>, Columns),
                    "public", "t1", Catalog("d1")["t1"])
        EXCEPT !.edits = [c \in {<<1, 2>>} |-> 1]]

InitEdited ==
    /\ db = [conn |-> TRUE, info |-> [name |-> "c1", dbname |-> "d1"], txn |-> {}]
    /\ threads = {}
    /\ inbox = <<>>
    /\ results_model = EditedGrid
    /\ pending = <<"public", "t1">>
    /\ pending_dml_changes = NotSet
    /\ original_info = db.info
    /\ actions_enabled = TRUE
    /\ results_stack = 0
    /\ tree = "loaded"
    /\ last = Step("cell edit")

NextEdited ==
    \/ /\ threads = {}
       /\ inbox = <<>>
       /\ results_model = EditedGrid
       /\ actions_enabled
       /\ \E q \in EditorTexts, answer \in Answers : ExecuteAction(q, answer)
    \/ \E t \in threads : WorkerBegin(t)
    \/ \E t \in threads : \E out \in Outcomes(t.select), early \in BOOLEAN :
           WorkerExecute(t, out, early)
    \/ _on_query_finished
    \/ \E row \in 1 .. MaxRows, col \in 1 .. Len(Columns), v \in Values :
           CellEdit(row, col, v)

SpecEdited == InitEdited /\ [][NextEdited]_vars

(***************************************************************************)
(* _commit_changes against the table.  The table public.t1 of d1 has the   *)
(* columns id (its primary key) and v; the grid holds its rows as a SELECT *)
(* of all columns or of v alone fetched them, row i of the grid being row  *)
(* i of the table, with some cells edited.  The server applies an UPDATE   *)
(* to the rows its WHERE clause matches (a comparison with NULL matches    *)
(* none) and rejects one that would give two rows the same key.            *)
(***************************************************************************)
TableRows ==
    {tb \in UNION {[1 .. n -> [{"id", "v"} -> 0 .. MaxCellFetched]] : n \in 1 .. MaxCellRows} :
        \A i, j \in 1 .. Len(tb) : tb[i]["id"] = tb[j]["id"] => i = j}

SelectLists == {<<"id", "v">>, <<"v">>}

\* cur.fetchall() with dict_row: each row has the selected columns only.
Fetched(tb, columns) ==
    [i \in 1 .. Len(tb) |-> [c \in {columns[k] : k \in 1 .. Len(columns)} |-> tb[i][c]]]

\* The edit sets a grid can carry: a value per edited cell that is not the
\* cell's fetched value.
EditSets(m) ==
    {e \in UNION {[cs -> Typed] : cs \in SUBSET ValidIndexes(m)} :
        \A c \in DOMAIN e : e[c] # Original(m, c[1], c[2])}

\* The orders of n items (the dict of edits iterates in insertion order, and
\* any order of its keys is the insertion order of some sequence of writes).
Orders(n) ==
    {o \in [1 .. n -> 1 .. n] : \A i, j \in 1 .. n : o[i] = o[j] => i = j}

\* The server executes UPDATE t1 SET column = value WHERE pk_columns = pk_values.
ServerUpdate(tb, pk_columns, pk_values, column, value) ==
    LET hit(i) == \A k \in 1 .. Len(pk_columns) :
                      pk_values[k] # Null /\ tb[i][pk_columns[k]] = pk_values[k]
        new == [i \in 1 .. Len(tb) |->
                   IF hit(i) THEN [tb[i] EXCEPT ![column] = value] ELSE tb[i]]
    IN IF \A i, j \in 1 .. Len(new) : new[i]["id"] = new[j]["id"] => i = j
       THEN [ok |-> TRUE, table |-> new]
       ELSE [ok |-> FALSE, table |-> tb]

\* The loop of _commit_changes on the table: the table after the UPDATEs that
\* succeeded, and the cells whose UPDATE the server rejected.
RECURSIVE UpdateTable(_, _, _)
UpdateTable(tb, pk_columns, edits) ==
    IF edits = <<>>
    THEN [table |-> tb, failing |-> {}]
    ELSE LET e == Head(edits)
             r == ServerUpdate(tb, pk_columns, e.pk_values, e.column, e.new_value)
             rest == UpdateTable(r.table, pk_columns, Tail(edits))
         IN [table |-> rest.table,
             failing |-> rest.failing \cup (IF r.ok THEN {} ELSE {e.cell})]

\* What the commit records in the variable last: the table as it is durably.
OnTable(op, outcome, tb) == [op |-> op, outcome |-> outcome, table |-> tb]

InitTable ==
    /\ db = [conn |-> TRUE, info |-> [name |-> "c1", dbname |-> "d1"], txn |-> {}]
    /\ threads = {}
    /\ inbox = <<>>
    /\ \E tb \in TableRows, columns \in SelectLists :
           LET m == set_table_info(set_data(EmptyModel, Fetched(tb, columns), columns),
                                   "public", "t1", Catalog("d1")["t1"])
           IN /\ \E e \in EditSets(m) : results_model = [m EXCEPT !.edits = e]
              /\ last = OnTable("query finished", "none", tb)
    /\ pending = <<"public", "t1">>
    /\ pending_dml_changes = NotSet
    /\ original_info = db.info
    /\ actions_enabled = _on_edits_changed(edit_count(results_model))
    /\ results_stack = 0
    /\ tree = "loaded"

\* MainWindow._commit_changes with the server's side of it.  order: the order
\* in which the dict of edits iterates; commit_ok: conn.commit() succeeds.
CommitOnTable(order, commit_ok) ==
    /\ last.op = "query finished"
    /\ actions_enabled
    /\ order \in Orders(edit_count(results_model))
    /\ LET m == results_model
           listed == get_pending_edits(m)
           edits == [i \in 1 .. Len(listed) |-> listed[order[i]]]
           t == UpdateTable(last.table, m.pk_columns, edits)
           u == UpdateEach(Session(db), m, edits, t.failing)
           s2 == commit(u.s, commit_ok)
       IN IF u.errors > 0
          THEN /\ db' = Stored(rollback(u.s))
               /\ last' = OnTable("commit", "update failed", last.table)
               /\ UNCHANGED <<results_model, actions_enabled>>
          ELSE /\ db' = Stored(s2)
               /\ results_model' = clear_edits(m)
               /\ actions_enabled' = IF s2.exc THEN _on_edits_changed(0) ELSE FALSE
               /\ last' = IF s2.exc THEN OnTable("commit", "commit failed", last.table)
                                    ELSE OnTable("commit", "committed", t.table)
    /\ UNCHANGED <<threads, inbox, pending, pending_dml_changes, original_info,
                   results_stack, tree>>

NextTable ==
    \E order \in UNION {Orders(n) : n \in 0 .. MaxCellRows * Len(Columns)},
       commit_ok \in BOOLEAN : CommitOnTable(order, commit_ok)

SpecTable == InitTable /\ [][NextTable]_vars

(***************************************************************************)
(* ui.py: TypeAwareDelegate.  A Python value is written [t, v]: its type   *)
(* and its text (None has no text); two values are equal when both agree.  *)
(* The grid has one cell, of a column of one of the types, holding one of  *)
(* the values the driver returns for that type.                            *)
(***************************************************************************)
PyNone == [t |-> "none", v |-> ""]

\* The column types (PG_BOOL, PG_INT4, PG_INT8, PG_FLOAT8, PG_TEXT, PG_DATE).
ColumnTypes == {"bool", "int4", "int8", "float8", "text", "date"}

\* Values of a column of the type, NULL among them.
ValuesOfType(col_type) ==
    {PyNone} \cup
    CASE col_type = "bool" -> {[t |-> "bool", v |-> "True"], [t |-> "bool", v |-> "False"]}
      [] col_type = "int4" -> {[t |-> "int", v |-> "0"], [t |-> "int", v |-> "7"]}
      [] col_type = "int8" -> {[t |-> "int", v |-> "7"],
                               [t |-> "int", v |-> "2147483648"],
                               [t |-> "int", v |-> "-2147483649"]}
      [] col_type = "float8" -> {[t |-> "float", v |-> "0.0"], [t |-> "float", v |-> "1.5"],
                                 [t |-> "float", v |-> "0.1234567"]}
      [] col_type = "text" -> {[t |-> "str", v |-> ""], [t |-> "str", v |-> "abc"]}
      [] col_type = "date" -> {[t |-> "date", v |-> "2024-01-01"]}

\* TypeAwareDelegate.createEditor: the kind of editor and what it shows at first.
createEditor(col_type) ==
    CASE col_type = "bool" -> [kind |-> "QComboBox", shown |-> "True"]
      [] col_type \in {"int4", "int8"} -> [kind |-> "QSpinBox", shown |-> "0"]
      [] col_type = "float8" -> [kind |-> "QDoubleSpinBox", shown |-> "0.0"]
      [] OTHER -> [kind |-> "QLineEdit", shown |-> ""]

\* TypeAwareDelegate.setEditorData: what the editor can show after it.  The
\* spin box keeps a value within its range -2147483648 .. 2147483647: for a
\* value outside it, setValue either clamps or fails to convert the argument
\* and leaves the editor as created.  The double spin box rounds to 6 decimals.
setEditorData(editor, value) ==
    CASE editor.kind = "QComboBox" ->
             {IF value = PyNone THEN "NULL"
              ELSE IF value.v = "True" THEN "True" ELSE "False"}
      [] editor.kind = "QSpinBox" ->
             IF value = PyNone THEN {"0"}
             ELSE IF value.v = "2147483648" THEN {"2147483647", editor.shown}
             ELSE IF value.v = "-2147483649" THEN {"-2147483648", editor.shown}
             ELSE {value.v}
      [] editor.kind = "QDoubleSpinBox" ->
             IF value = PyNone THEN {"0.0"}
             ELSE IF value.v = "0.1234567" THEN {"0.123457"}
             ELSE {value.v}
      [] OTHER -> {IF value = PyNone THEN "" ELSE value.v}

\* TypeAwareDelegate.setModelData: the value handed to ResultsModel.setData.
setModelData(editor) ==
    CASE editor.kind = "QComboBox" ->
             IF editor.shown = "NULL" THEN PyNone
             ELSE [t |-> "bool", v |-> editor.shown]
      [] editor.kind = "QSpinBox" -> [t |-> "int", v |-> editor.shown]
      [] editor.kind = "QDoubleSpinBox" -> [t |-> "float", v |-> editor.shown]
      [] OTHER -> IF editor.shown = "" THEN PyNone ELSE [t |-> "str", v |-> editor.shown]

\* What a step of the delegate records in the variable last.
Editing(op, col_type, editor) == [op |-> op, col_type |-> col_type, editor |-> editor]

InitEditor ==
    /\ db = [conn |-> TRUE, info |-> [name |-> "c1", dbname |-> "d1"], txn |-> {}]
    /\ threads = {}
    /\ inbox = <<>>
    /\ \E col_type \in ColumnTypes :
           /\ \E original \in ValuesOfType(col_type),
                 e \in {NoEdits} \cup {[c \in {<<1, 1>>} |-> w] : w \in ValuesOfType(col_type)} :
                  /\ \A c \in DOMAIN e : e[c] # original
                  /\ results_model =
                         [set_table_info(set_data(EmptyModel, <<[c |-> original]>>, <<"c">>),
                                         "public", "t1", Catalog("d1")["t1"])
                             EXCEPT !.edits = e]
           /\ last = Editing("query finished", col_type, createEditor(col_type))
    /\ pending = <<"public", "t1">>
    /\ pending_dml_changes = NotSet
    /\ original_info = db.info
    /\ actions_enabled = _on_edits_changed(edit_count(results_model))
    /\ results_stack = 0
    /\ tree = "loaded"

\* The view opens an editor on the cell: createEditor and setEditorData.
OpenEditor ==
    /\ last.op # "editing"
    /\ flags(results_model)
    /\ LET editor == createEditor(last.col_type)
       IN \E shown \in setEditorData(editor, EditRoleData(results_model, 1, 1)) :
              last' = Editing("editing", last.col_type, [editor EXCEPT !.shown = shown])
    /\ UNCHANGED <<db, threads, inbox, results_model, pending, pending_dml_changes,
                   original_info, actions_enabled, results_stack, tree>>

\* The user closes the editor without having changed what it shows (Enter, or
\* the focus moves on): the view commits it with setModelData.
CloseEditor ==
    /\ last.op = "editing"
    /\ LET m == setData(results_model, 1, 1, setModelData(last.editor))
       IN /\ results_model' = m
          /\ actions_enabled' = _on_edits_changed(edit_count(m))
    /\ last' = Editing("closed", last.col_type, last.editor)
    /\ UNCHANGED <<db, threads, inbox, pending, pending_dml_changes, original_info,
                   results_stack, tree>>

NextEditor == OpenEditor \/ CloseEditor

SpecEditor == InitEditor /\ [][NextEditor]_vars

(***************************************************************************)
(* ResultsModel and its signal editsChanged: the operations that touch the *)
(* edit set, called on a model that starts as constructed, and the count   *)
(* each of them emits.                                                     *)
(***************************************************************************)

\* A mutation of editsChanged: setData emits the count before it changes the
\* edit set.
editsChanged_BeforeWrite(op, before, after) ==
    IF op = "setData" THEN Cardinality(DOMAIN before.edits) ELSE 0

\* The argument of editsChanged.emit in op: len(self._edits) at the end of
\* setData, the literal 0 in set_data, clear and clear_edits.
editsChanged(op, before, after) ==
    IF op = "setData" THEN Cardinality(DOMAIN after.edits) ELSE 0

\* The last emission of editsChanged, by op with count.
Notified(op, count) == [op |-> op, notified |-> count]

Emit(op, m) ==
    /\ results_model' = m
    /\ last' = Notified(op, editsChanged(op, results_model, m))
    /\ UNCHANGED <<db, threads, inbox, pending, pending_dml_changes, original_info,
                   actions_enabled, results_stack, tree>>

InitNotify ==
    /\ db = [conn |-> FALSE, info |-> NoInfo, txn |-> {}]
    /\ threads = {}
    /\ inbox = <<>>
    /\ results_model = EmptyModel
    /\ pending = <<"", "">>
    /\ pending_dml_changes = NotSet
    /\ original_info = NoInfo
    /\ actions_enabled = FALSE
    /\ results_stack = 0
    /\ tree = "empty"
    /\ last = Notified("none", 0)

\* setData(index, value, Qt.EditRole) with a valid index
Call_setData(row, col, value) ==
    /\ <<row, col>> \in ValidIndexes(results_model)
    /\ Emit("setData", setData(results_model, row, col, value))

Call_set_data(rows) == Emit("set_data", set_data(results_model, rows, Columns))

Call_clear_edits == Emit("clear_edits", clear_edits(results_model))

Call_clear == Emit("clear", clear(results_model))

NextNotify ==
    \/ \E row \in 1 .. MaxCellRows, col \in 1 .. Len(Columns), v \in Typed :
           Call_setData(row, col, v)
    \/ \E rows \in CellRowSets : Call_set_data(rows)
    \/ Call_clear_edits
    \/ Call_clear

SpecNotify == InitNotify /\ [][NextNotify]_vars

(***************************************************************************)
(* db.py: the text execute_query sends.                                    *)
(***************************************************************************)
MaxPieces == 4

Pieces == {"select", "SELECT", "limit", "LIMIT", "unlimited", "update", " ", ";"}

RawTexts == UNION {[1 .. n -> Pieces] : n \in 0 .. MaxPieces}

\* str.lstrip() and str.rstrip(): leading, trailing whitespace removed
RECURSIVE lstrip(_)
lstrip(q) == IF q # <<>> /\ Head(q) \in Space THEN lstrip(Tail(q)) ELSE q

RECURSIVE rstrip(_, _)
rstrip(q, chars) ==
    IF q # <<>> /\ q[Len(q)] \in chars THEN rstrip(SubSeq(q, 1, Len(q) - 1), chars) ELSE q

\* query.strip().rstrip(";")
query_stripped(query) == rstrip(rstrip(lstrip(query), Space), {";"})

\* "LIMIT" in query_upper
ContainsLimit(q) == \E i \in 1 .. Len(q) : Upper(q[i]) \in {"LIMIT", "UNLIMITED"}

\* A mutation of SentText: LIMIT is looked for in the text as typed, not in its
\* upper-case form.
SentText_CaseSensitive(query) ==
    LET q == query_stripped(query)
    IN IF StartsWithSelect(q) /\ ~(\E i \in 1 .. Len(q) : q[i] = "LIMIT")
       THEN q \o <<" ", "LIMIT", " ", "1000">>
       ELSE q

\* The statement text execute_query passes to cur.execute.
SentText(query) ==
    LET q == query_stripped(query)
    IN IF StartsWithSelect(q) /\ ~ContainsLimit(q)
       THEN q \o <<" ", "LIMIT", " ", "1000">>
       ELSE q

(***************************************************************************)
(* db.py: the Database class on its own, called by one caller, one call at *)
(* a time.  The variable last records the call and what it returned.       *)
(***************************************************************************)
Call(op) ==
    [op        |-> op,
     info      |-> NoInfo,   \* the profile given to connect
     query     |-> <<>>,     \* the text given to execute_query
     sent      |-> <<>>,     \* the text passed to cur.execute
     pk_columns |-> <<>>,    \* the key list given to execute_update
     connected |-> FALSE,    \* the session was connected when called
     calls     |-> <<>>,     \* the driver calls the call made
     raised    |-> FALSE,    \* an exception left the call
     error     |-> NoError,  \* the error text returned
     rows      |-> <<>>,
     columns   |-> <<>>,
     rowcount  |-> 0,
     count     |-> 0,        \* the length of the sequence a metadata query returned
     committed |-> {}]       \* the work the call made durable

\* Database.execute_query as a whole, by a caller that has the session to
\* itself.  Returns the session, the tuple returned and the text sent.
Database_execute_query(s, query, out) ==
    IF ~s.conn
    THEN [s |-> s, sent |-> <<>>, raised |-> FALSE,
          result |-> Completion(<<>>, <<>>, "Not connected", 0)]
    ELSE LET q == query_stripped(query)
             r == execute_query(s, "open", StartsWithSelect(q), out, FALSE)
         IN [s |-> r.s, sent |-> SentText(query), raised |-> r.raised,
             result |-> r.result]

\* The calls of a caller to the texts and tables of the catalog.
SessionTexts ==
    { <<"select", " ", "limit">>, <<" ", "SELECT", ";">>, <<"update", ";", " ">> }

CallConnect(info, ok) ==
    /\ LET s == connect(Session(db), info, ok)
       IN /\ db' = Stored(s)
          /\ last' = [Call("connect") EXCEPT !.connected = db.conn, !.calls = s.calls,
                                             !.raised = s.exc, !.info = info]
    /\ UNCHANGED <<threads, inbox, results_model, pending, pending_dml_changes,
                   original_info, actions_enabled, results_stack, tree>>

CallDisconnect ==
    /\ LET s == disconnect(Session(db))
       IN /\ db' = Stored(s)
          /\ last' = [Call("disconnect") EXCEPT !.connected = db.conn, !.calls = s.calls]
    /\ UNCHANGED <<threads, inbox, results_model, pending, pending_dml_changes,
                   original_info, actions_enabled, results_stack, tree>>

CallCommit(ok) ==
    /\ LET s == commit(Session(db), ok)
       IN /\ db' = Stored(s)
          /\ last' = [Call("commit") EXCEPT !.connected = db.conn, !.calls = s.calls,
                                            !.raised = s.exc, !.committed = s.done]
    /\ UNCHANGED <<threads, inbox, results_model, pending, pending_dml_changes,
                   original_info, actions_enabled, results_stack, tree>>

CallRollback ==
    /\ LET s == rollback(Session(db))
       IN /\ db' = Stored(s)
          /\ last' = [Call("rollback") EXCEPT !.connected = db.conn, !.calls = s.calls,
                                              !.raised = s.exc]
    /\ UNCHANGED <<threads, inbox, results_model, pending, pending_dml_changes,
                   original_info, actions_enabled, results_stack, tree>>

CallSwitchDatabase(dbname, ok) ==
    /\ LET s == switch_database(Session(db), dbname, ok)
       IN /\ db' = Stored(s)
          /\ last' = [Call("switch_database") EXCEPT
                         !.connected = db.conn, !.calls = s.calls, !.raised = s.exc,
                         !.info = IF db.info = NoInfo THEN NoInfo
                                  ELSE [name |-> db.info.name, dbname |-> dbname]]
    /\ UNCHANGED <<threads, inbox, results_model, pending, pending_dml_changes,
                   original_info, actions_enabled, results_stack, tree>>

\* get_schemas, get_tables and get_primary_keys stand for the metadata queries:
\* all of them begin with the same guard and send one statement.
CallMetadata(f, table) ==
    /\ LET s == metadata(Session(db))
           n == CASE f = "get_schemas" -> Len(get_schemas(s))
                  [] f = "get_tables"  -> Cardinality(get_tables(s, "public"))
                  [] OTHER             -> Len(get_primary_keys(s, "public", table))
       IN /\ db' = Stored(s)
          /\ last' = [Call(f) EXCEPT !.connected = db.conn, !.calls = s.calls,
                                     !.raised = s.exc, !.count = n]
    /\ UNCHANGED <<threads, inbox, results_model, pending, pending_dml_changes,
                   original_info, actions_enabled, results_stack, tree>>

CallExecuteQuery(query, out) ==
    /\ out \in Outcomes(StartsWithSelect(query_stripped(query)))
    /\ LET r == Database_execute_query(Session(db), query, out)
       IN /\ db' = Stored(r.s)
          /\ last' = [Call("execute_query") EXCEPT
                         !.connected = db.conn, !.query = query, !.sent = r.sent,
                         !.calls = r.s.calls, !.raised = r.raised,
                         !.error = r.result.error, !.rows = r.result.rows,
                         !.columns = r.result.columns, !.rowcount = r.result.rowcount,
                         !.committed = r.s.done]
    /\ UNCHANGED <<threads, inbox, results_model, pending, pending_dml_changes,
                   original_info, actions_enabled, results_stack, tree>>

CallExecuteUpdate(pk_columns, new_value, ok) ==
    /\ LET r == execute_update(Session(db), "public", "t1", pk_columns,
                               [i \in 1 .. Len(pk_columns) |-> 0], "v", new_value, ok)
       IN /\ db' = Stored(r.s)
          /\ last' = [Call("execute_update") EXCEPT
                         !.connected = db.conn, !.pk_columns = pk_columns,
                         !.calls = r.s.calls, !.raised = r.s.exc,
                         !.error = r.error, !.committed = r.s.done]
    /\ UNCHANGED <<threads, inbox, results_model, pending, pending_dml_changes,
                   original_info, actions_enabled, results_stack, tree>>

NextSession ==
    \/ \E info \in DialogProfiles, ok \in BOOLEAN : CallConnect(info, ok)
    \/ CallDisconnect
    \/ \E ok \in BOOLEAN : CallCommit(ok)
    \/ CallRollback
    \/ \E d \in Databases, ok \in BOOLEAN : CallSwitchDatabase(d, ok)
    \/ \E f \in {"get_schemas", "get_tables", "get_primary_keys"} :
           \E tb \in {"t1", "t2"} : CallMetadata(f, tb)
    \/ \E q \in SessionTexts :
           \E out \in Outcomes(StartsWithSelect(query_stripped(q))) : CallExecuteQuery(q, out)
    \/ \E pk \in {<<>>, <<"id">>}, v \in Values, ok \in BOOLEAN :
           CallExecuteUpdate(pk, v, ok)

\* Database.__init__
InitSession ==
    /\ db = [conn |-> FALSE, info |-> NoInfo, txn |-> {}]
    /\ threads = {}
    /\ inbox = <<>>
    /\ results_model = EmptyModel
    /\ pending = <<"", "">>
    /\ pending_dml_changes = NotSet
    /\ original_info = NoInfo
    /\ actions_enabled = FALSE
    /\ results_stack = 0
    /\ tree = "empty"
    /\ last = Call("none")

SpecSession == InitSession /\ [][NextSession]_vars

(***************************************************************************)
(* execute_query applied once to each text, on a connected session.        *)
(***************************************************************************)
InitText ==
    /\ \E d \in Databases, work \in SUBSET {[kind |-> "dml"]} :
           db = [conn |-> TRUE, info |-> [name |-> "c1", dbname |-> d], txn |-> work]
    /\ threads = {}
    /\ inbox = <<>>
    /\ results_model = EmptyModel
    /\ pending = <<"", "">>
    /\ pending_dml_changes = NotSet
    /\ original_info = NoInfo
    /\ actions_enabled = FALSE
    /\ results_stack = 0
    /\ tree = "empty"
    /\ \E q \in RawTexts : last = [Call("none") EXCEPT !.query = q]

NextText ==
    \E out \in Outcomes(StartsWithSelect(query_stripped(last.query))) :
        last.op = "none" /\ CallExecuteQuery(last.query, out)

SpecText == InitText /\ [][NextText]_vars

(***************************************************************************)
(* ui.py: _parse_table_from_query applied once to each text of a family of *)
(* SELECT texts: a beginning, FROM, a table name in one of its forms, and  *)
(* an ending.                                                              *)
(***************************************************************************)
Heads ==
    { <<"SELECT", " ", "*", " ">>,
      <<"select", " ", DQ, "join", DQ, " ">>,
      <<"SELECT", " ", "*", " ", "FROM", " ", "(", "SELECT", " ", "*", " ">> }

Names ==
    { <<"a">>,
      <<"border">>,
      <<DQ, "a", DQ>>,
      <<"a", ".", "b">>,
      <<"a", " ", ".", "\n", "b">>,
      <<DQ, "a", DQ, ".", DQ, "b", DQ>>,
      <<DQ, "a", DQ, ".", "b">> }

Tails ==
    { <<>>,
      <<";">>,
      <<" ", "WHERE", " ", "x", "=", "1">>,
      <<",", " ", "c">>,
      <<" ", ",", " ", "c">>,
      <<" ", "JOIN", " ", "c">>,
      <<" ", "join", " ", "c">>,
      <<"\n", "JOIN", "\n", "c">>,
      <<" ", "WHERE", " ", "x", " ", "IN", " ", "(", "SELECT", " ", "y", " ",
        "FROM", " ", "c", ".", "d", ")">>,
      <<")", " ", "x">> }

ResolverTexts ==
    {h \o <<f, " ">> \o n \o tl : h \in Heads, f \in {"FROM", "from"}, n \in Names,
                                  tl \in Tails}

\* What the one call records in the variable last.
Resolved(op, query, ref) == [op |-> op, query |-> query, ref |-> ref]

InitResolver ==
    /\ db = [conn |-> FALSE, info |-> NoInfo, txn |-> {}]
    /\ threads = {}
    /\ inbox = <<>>
    /\ results_model = EmptyModel
    /\ pending = <<"", "">>
    /\ pending_dml_changes = NotSet
    /\ original_info = NoInfo
    /\ actions_enabled = FALSE
    /\ results_stack = 0
    /\ tree = "empty"
    /\ \E q \in ResolverTexts : last = Resolved("none", q, <<"", "">>)

Resolve ==
    /\ last.op = "none"
    /\ last' = Resolved("_parse_table_from_query", last.query,
                        _parse_table_from_query(last.query))
    /\ UNCHANGED <<db, threads, inbox, results_model, pending, pending_dml_changes,
                   original_info, actions_enabled, results_stack, tree>>

SpecResolver == InitResolver /\ [][Resolve]_vars

(***************************************************************************)
(* db.py: the store of saved connections.  The file is missing, is not     *)
(* JSON, or holds a list of objects; an object has some of the keys name,  *)
(* last_connected_at (a timestamp 1 .. MaxStamp, or null, written 0) and   *)
(* color, a key ConnectionInfo does not have.  The fields with defaults    *)
(* (host, port, dbname, user, password) are left out.                      *)
(***************************************************************************)
MaxProfiles == 2
MaxStamp == 2

ProfileNames == {"p1", "p2"}

Objects ==
    {[name |-> n] : n \in ProfileNames} \cup
    {[name |-> n, last_connected_at |-> s] : n \in ProfileNames, s \in 0 .. MaxStamp} \cup
    {[last_connected_at |-> s] : s \in 0 .. MaxStamp} \cup
    {[name |-> n, color |-> 0] : n \in ProfileNames} \cup
    {[name |-> n, last_connected_at |-> s, color |-> 0] :
        n \in ProfileNames, s \in 0 .. MaxStamp}

Files ==
    {[kind |-> "missing", data |-> <<>>], [kind |-> "not json", data |-> <<>>]} \cup
    {[kind |-> "list", data |-> d] : d \in UNION {[1 .. n -> Objects] : n \in 0 .. MaxProfiles}}

\* None, where a profile is expected
NoProfile == [name |-> "", last_connected_at |-> 0]

\* ConnectionInfo.from_dict: cls(**data) raises TypeError when name is missing
\* or a key is not a field.
from_dict(data) ==
    LET stamp == IF "last_connected_at" \in DOMAIN data THEN data.last_connected_at ELSE 0
    IN IF "name" \in DOMAIN data /\ DOMAIN data \subseteq {"name", "last_connected_at"}
       THEN [raised |-> FALSE,
             value |-> [name |-> data.name, last_connected_at |-> stamp]]
       ELSE [raised |-> TRUE, value |-> NoProfile]

\* load_connections: json.JSONDecodeError and KeyError are caught, nothing else.
load_connections(file) ==
    IF file.kind # "list"
    THEN [raised |-> FALSE, value |-> <<>>]
    ELSE IF \E i \in 1 .. Len(file.data) : from_dict(file.data[i]).raised
    THEN [raised |-> TRUE, value |-> <<>>]
    ELSE [raised |-> FALSE,
          value |-> [i \in 1 .. Len(file.data) |-> from_dict(file.data[i]).value]]

\* A mutation of get_last_connection: the sort is ascending.
get_last_connection_Oldest(file) ==
    LET l == load_connections(file)
        c == l.value
    IN IF l.raised \/ c = <<>>
       THEN [raised |-> l.raised, value |-> NoProfile]
       ELSE LET i == CHOOSE i \in 1 .. Len(c) :
                         /\ \A j \in 1 .. Len(c) :
                                c[j].last_connected_at >= c[i].last_connected_at
                         /\ \A j \in 1 .. i - 1 :
                                c[j].last_connected_at # c[i].last_connected_at
            IN [raised |-> FALSE, value |-> c[i]]

\* get_last_connection: sorted by (last_connected_at or "") with reverse=True,
\* a stable sort, and the first of the sorted list.
get_last_connection(file) ==
    LET l == load_connections(file)
        c == l.value
    IN IF l.raised \/ c = <<>>
       THEN [raised |-> l.raised, value |-> NoProfile]
       ELSE LET i == CHOOSE i \in 1 .. Len(c) :
                         /\ \A j \in 1 .. Len(c) :
                                c[j].last_connected_at <= c[i].last_connected_at
                         /\ \A j \in 1 .. i - 1 :
                                c[j].last_connected_at # c[i].last_connected_at
            IN [raised |-> FALSE, value |-> c[i]]

\* What a call on the store records in the variable last.
StoreCall(op, file, raised, loaded, found) ==
    [op |-> op, file |-> file, raised |-> raised, loaded |-> loaded, found |-> found]

InitStore ==
    /\ db = [conn |-> FALSE, info |-> NoInfo, txn |-> {}]
    /\ threads = {}
    /\ inbox = <<>>
    /\ results_model = EmptyModel
    /\ pending = <<"", "">>
    /\ pending_dml_changes = NotSet
    /\ original_info = NoInfo
    /\ actions_enabled = FALSE
    /\ results_stack = 0
    /\ tree = "empty"
    /\ \E f \in Files : last = StoreCall("none", f, FALSE, <<>>, NoProfile)

CallLoadConnections ==
    /\ last.op = "none"
    /\ LET l == load_connections(last.file)
       IN last' = StoreCall("load_connections", last.file, l.raised, l.value, NoProfile)
    /\ UNCHANGED <<db, threads, inbox, results_model, pending, pending_dml_changes,
                   original_info, actions_enabled, results_stack, tree>>

CallGetLastConnection ==
    /\ last.op = "none"
    /\ LET g == get_last_connection(last.file)
       IN last' = StoreCall("get_last_connection", last.file, g.raised, <<>>, g.value)
    /\ UNCHANGED <<db, threads, inbox, results_model, pending, pending_dml_changes,
                   original_info, actions_enabled, results_stack, tree>>

NextStore == CallLoadConnections \/ CallGetLastConnection

SpecStore == InitStore /\ [][NextStore]_vars


(***************************************************************************)
(* Properties.                                                             *)
(***************************************************************************)
\* The UPDATEs _commit_changes issues for the pending edits of m.
UpdatesOf(m) ==
    LET edits == get_pending_edits(m)
    IN {UpdateOf(m.schema, m.table, edits[i].pk_values, edits[i].column,
                 edits[i].new_value) : i \in 1 .. Len(edits)}

\* C1: commit of pending cell edits is all-or-nothing.  When _commit_changes
\* runs with N >= 1 pending edits: if an UPDATE returned an error, the edit set
\* is unchanged and the transaction ends rolled back, with no UPDATE of the
\* attempt left in it; if all UPDATEs succeeded, the edit set is empty and the
\* transaction, with the UPDATEs of the attempt, is committed.
C1_CommitAllOrNothing ==
    [][(last'.op = "commit" /\ has_edits(results_model)
            /\ last'.outcome # "no primary key") =>
         IF last'.outcome = "update failed"
         THEN /\ results_model'.edits = results_model.edits
              /\ db'.txn = {}
         ELSE /\ ~has_edits(results_model')
              /\ db'.txn = {}
              /\ UpdatesOf(results_model) \subseteq last'.committed]_vars

\* C2: pending cell edits are never discarded without the user's consent.  A
\* step that empties a non-empty edit set is a commit, an explicit rollback, a
\* discard the user confirmed in the prompt, or the user's own write of the
\* last edited cell back to its original; the delivery of a query's result is
\* none of these.
C2_EditsNeverDiscardedSilently ==
    [][(has_edits(results_model) /\ ~has_edits(results_model')) =>
         \/ last'.op \in {"commit", "rollback", "cell edit"}
         \/ last'.prompt = "yes"]_vars

\* The effects of a non-SELECT statement that executed successfully.
Dml == [kind |-> "dml"]

\* C3: the effects of a successful non-SELECT statement stay in the open
\* transaction until the user issues commit or rollback: no other step takes
\* them out of it.
C3_DmlHeldUntilCommitOrRollback ==
    [][(Dml \in db.txn /\ last'.op \notin {"commit", "rollback"}) =>
         Dml \in db'.txn]_vars

\* The handlers of the interactive thread.
InteractiveOps ==
    {"connect", "tree expand", "execute", "double click", "query finished",
     "cell edit", "commit", "rollback"}

\* The worker is executing its statement on the connection.
WorkerExecuting == \E t \in threads : t.pc = "exec" /\ t.handle = "open"

\* C4: the connection is never used by two calls at once.  While the worker is
\* executing execute_query on the connection, no handler of the interactive
\* thread makes a call on a connection.
C4_ConnectionNeverShared ==
    [][(WorkerExecuting /\ last'.op \in InteractiveOps) => ~last'.used]_vars

\* C5: at most one query execution is in flight at any time, and an execute
\* request issued while a worker is running (from the Execute action or from a
\* double click) starts no new worker, queues nothing and leaves the pending
\* table binding unchanged.
C5_OneInFlight ==
    [][/\ Cardinality(threads') <= 1
       /\ (worker_isRunning(threads) /\ last'.op \in {"execute", "double click"}) =>
             /\ last'.outcome # "dispatched"
             /\ Cardinality(threads') = Cardinality(threads)
             /\ \A t \in threads' : t.pc # "ready" \/ t \in threads
             /\ inbox' = inbox
             /\ pending' = pending]_vars

\* An execute request was rejected because a worker is running.
C5_Rejected ==
    /\ last.op = "execute"
    /\ last.outcome = "already running"
    /\ worker_isRunning(threads)

\* C6: every dispatched query delivers its completion exactly once.  A worker
\* thread that ends has emitted one finished-signal, and only a worker that
\* ends emits.
C6_CompletionExactlyOnce ==
    [][/\ Cardinality(threads') < Cardinality(threads) => Len(inbox') = Len(inbox) + 1
       /\ Len(inbox') > Len(inbox) =>
             /\ Len(inbox') = Len(inbox) + 1
             /\ Cardinality(threads') = Cardinality(threads) - 1]_vars

\* A table reference is bound to the result.
Bound(m) == m.schema # "" /\ m.table # ""

\* C7: the cells of the current result are editable if and only if a table
\* reference is bound to it and its primary-key list is non-empty.
C7_EditableIffBoundWithKey ==
    flags(results_model) <=>
        (Bound(results_model) /\ results_model.pk_columns # <<>>)

\* A result with rows, bound to a table without primary key, is shown read-only.
C7_BoundNoKeyReadOnly ==
    /\ results_stack = 0
    /\ results_model.data # <<>>
    /\ Bound(results_model)
    /\ results_model.pk_columns = <<>>
    /\ ~flags(results_model)

\* C8: every entry of the edit overlay is at a cell of the current result and
\* holds a value that differs from the original fetched value of that cell.
C8_EditsDifferFromOriginal ==
    \A c \in DOMAIN results_model.edits :
        /\ c \in ValidIndexes(results_model)
        /\ results_model.edits[c] # Original(results_model, c[1], c[2])

\* Both cells of a row are edited.
C8_TwoCellsEdited ==
    /\ last.op = "cell edit"
    /\ edit_count(results_model) = 2

\* C9: cell writes are idempotent and undoable.  From every overlay, for every
\* cell c and values v, w: writing v twice is writing it once, and leaves one
\* entry for c iff v is not the original; writing the original after v and w
\* removes the entry of c, leaves the other entries alone and gives the count
\* without c; and what a write leaves depends on the original only, not on
\* the value written before.
C9_WritesIdempotentUndoable ==
    LET m == results_model
    IN \A c \in ValidIndexes(m) : \A v, w \in Typed :
           LET o == Original(m, c[1], c[2])
               others == DOMAIN m.edits \ {c}
               m1 == setData(m, c[1], c[2], v)
               m2 == setData(m1, c[1], c[2], w)
               back == setData(m2, c[1], c[2], o)
           IN /\ setData(m1, c[1], c[2], v) = m1
              /\ DOMAIN m1.edits = IF v = o THEN others ELSE others \cup {c}
              /\ v # o => m1.edits[c] = v
              /\ DOMAIN back.edits = others
              /\ \A d \in others : back.edits[d] = m.edits[d]
              /\ edit_count(back) = Cardinality(others)
              /\ m2 = setData(m, c[1], c[2], w)

\* Several cells are edited, one of them to the largest value.
C9_CellsWritten ==
    /\ last.op = "cell edit"
    /\ edit_count(results_model) >= 2
    /\ \E c \in DOMAIN results_model.edits : results_model.edits[c] = MaxTyped

\* C10: rollback is unconditional.  After _rollback_changes the transaction is
\* rolled back, the edit set is empty and the pending DML row count is cleared.
C10_RollbackClearsAll ==
    last.op = "rollback" =>
        /\ db.txn = {}
        /\ ~has_edits(results_model)
        /\ pending_dml_changes = NotSet

\* The step dispatched a worker for a text that starts with SELECT.
SelectDispatched ==
    /\ last'.outcome = "dispatched"
    /\ \E t \in threads' : t.pc = "ready" /\ t.select /\ t \notin threads

\* C11: pre-flight of a SELECT while cell edits are pending.  A SELECT is
\* dispatched with edits pending only after the prompt was answered yes; a
\* declined prompt dispatches nothing and leaves the edit set, the transaction
\* and the current result unchanged; after an accepted prompt the transaction
\* is rolled back and the edit set is empty.
C11_PreflightOfSelect ==
    [][/\ (has_edits(results_model) /\ SelectDispatched) => last'.prompt = "yes"
       /\ last'.outcome = "declined" => last'.prompt = "no"
       /\ last'.prompt = "no" =>
             /\ has_edits(results_model)
             /\ UNCHANGED <<threads, inbox, db, results_model, results_stack, pending>>
       /\ last'.prompt = "yes" =>
             /\ has_edits(results_model)
             /\ ~has_edits(results_model')
             /\ db'.txn = {}]_vars

\* The Execute action dispatched a SELECT after the user accepted the discard
\* of edits made beside uncommitted work.
C11_AcceptedAndDispatched ==
    /\ last.op = "execute"
    /\ last.prompt = "yes"
    /\ last.outcome = "dispatched"
    /\ last.used

\* A DML result has been delivered and is uncommitted.
DmlPending == pending_dml_changes # NotSet /\ Dml \in db.txn

\* C12: no SELECT is dispatched while cell edits or an uncommitted DML result
\* are pending unless the user confirmed in a prompt for that request.
C12_NoSelectOverPendingWork ==
    [][((has_edits(results_model) \/ DmlPending) /\ SelectDispatched) =>
         last'.prompt = "yes"]_vars

\* C13: a non-empty set of pending cell edits and a pending (uncommitted) DML
\* result are never outstanding at the same time.
C13_EditsAndDmlExclusive ==
    ~(has_edits(results_model) /\ DmlPending)

\* The worker whose statement the step completed ran it on the connection that
\* is still the session's own.
RanOnOwnConnection ==
    /\ last'.op = "worker run"
    /\ \E t \in threads \ threads' : t.pc = "exec" /\ t.handle = "open"

\* C14: when a statement run by execute_query on the connected session fails
\* with a database-level error, on the SELECT path or the other, the current
\* transaction is rolled back and the call returns the error text with empty
\* rows, empty columns and row count 0: nothing of the failed statement is
\* returned, and the completion carries exactly that.
C14_ErrorRollsBackAndReturnsEmpty ==
    [][(RanOnOwnConnection /\ last'.outcome = "statement failed") =>
          /\ db'.txn = {}
          /\ last'.used
          /\ ~last'.raised
          /\ \E c \in {Completion(<<>>, <<>>, "psycopg.Error", 0)} :
                 inbox' = Append(inbox, c)]_vars

\* A statement failed after a DML result had been delivered and held
\* uncommitted: the failure rolled the transaction back and was delivered.
C14_FailedAfterDml ==
    /\ last.op = "worker run"
    /\ last.outcome = "statement failed"
    /\ last.emitted = 1
    /\ last.used
    /\ pending_dml_changes # NotSet
    /\ db.txn = {}
    /\ inbox # <<>>
    /\ inbox[Len(inbox)].error = "psycopg.Error"

\* The elements of a sequence of driver calls.
Range(calls) == {calls[i] : i \in 1 .. Len(calls)}

\* C15: execute_update on a connected session with a non-empty key list: when
\* the UPDATE fails the current transaction is rolled back and the error text
\* is returned; when it succeeds no error is returned, the UPDATE joins the
\* open transaction uncommitted, and nothing is committed by the call.
C15_UpdateRollsBackOrStaysOpen ==
    [][(last'.op = "execute_update" /\ last'.connected /\ last'.pk_columns # <<>>) =>
          /\ ~last'.raised
          /\ last'.error # NoError =>
                /\ db'.txn = {}
                /\ "rollback" \in Range(last'.calls)
          /\ last'.error = NoError =>
                /\ db.txn \subseteq db'.txn
                /\ \E u \in db'.txn : u.kind = "update"
                /\ Cardinality(db'.txn \ db.txn) <= 1
                /\ last'.committed = {}
                /\ "commit" \notin Range(last'.calls)
          /\ db'.conn /\ db'.info = db.info]_vars

\* An UPDATE succeeded on top of an uncommitted DML statement: both are in the
\* open transaction.
C15_UpdateLeftOpen ==
    /\ last.op = "execute_update"
    /\ last.connected
    /\ last.error = NoError
    /\ [kind |-> "dml"] \in db.txn
    /\ \E u \in db.txn : u.kind = "update"

RECURSIVE LimitWords(_)
LimitWords(q) ==
    IF q = <<>> THEN 0
    ELSE (IF Upper(Head(q)) = "LIMIT" THEN 1 ELSE 0) + LimitWords(Tail(q))

\* C18: the text execute_query sends is the text given, without its leading
\* whitespace and without its trailing whitespace and then its trailing
\* semicolons; when that text starts with SELECT in any case and holds no
\* LIMIT in any case, " LIMIT 1000" is appended to it exactly once; every
\* other text is sent as trimmed.
C18_RowLimitPolicy ==
    last.op = "execute_query" =>
        LET q == last.query
            n == Len(q)
            trimmed == query_stripped(q)
            suffix == <<" ", "LIMIT", " ", "1000">>
        IN /\ \E i \in 1 .. n + 1, j \in 0 .. n :
                 /\ trimmed = SubSeq(q, i, j)
                 /\ \A k \in 1 .. i - 1 : q[k] = " "
                 /\ \A k \in j + 1 .. n : q[k] \in {" ", ";"}
           /\ trimmed # <<>> => Head(trimmed) # " " /\ trimmed[Len(trimmed)] # ";"
           /\ IF /\ trimmed # <<>>
                 /\ Head(trimmed) \in {"select", "SELECT"}
                 /\ \A k \in 1 .. Len(trimmed) :
                        trimmed[k] \notin {"limit", "LIMIT", "unlimited"}
              THEN /\ last.sent = trimmed \o suffix
                   /\ LimitWords(last.sent) = 1
              ELSE last.sent = trimmed

\* A lower-case select between whitespace and semicolons was sent trimmed and
\* limited.
C18_TrimmedAndLimited ==
    /\ last.op = "execute_query"
    /\ last.query = <<" ", "select", ";", ";">>
    /\ last.sent = <<"select", " ", "LIMIT", " ", "1000">>

\* C20: a call made while the session is not connected raises nothing, makes
\* no call on a connection and leaves the session as it is; a metadata query
\* returns the empty sequence, execute_query returns 'Not connected' with no
\* rows, no columns and row count 0, execute_update returns 'Not connected'.
\* (connect is the call that connects.)
C20_NotConnectedIsInert ==
    [][(last'.op \notin {"init", "none", "connect"} /\ ~last'.connected) =>
          /\ ~db.conn
          /\ db' = db
          /\ ~last'.raised
          /\ last'.calls = <<>>
          /\ last'.committed = {}
          /\ last'.count = 0
          /\ last'.op = "execute_query" =>
                /\ last'.error = "Not connected"
                /\ last'.rows = <<>>
                /\ last'.columns = <<>>
                /\ last'.rowcount = 0
                /\ last'.sent = <<>>
          /\ last'.op = "execute_update" => last'.error = "Not connected"]_vars

\* switch_database was called on a session that is not connected and holds
\* no profile.
C20_SwitchWhileNotConnected ==
    /\ last.op = "switch_database"
    /\ ~last.connected
    /\ ~db.conn
    /\ db.info = NoInfo

\* C17: a delivered completion is handled as exactly one of three outcomes,
\* tried in this order.  With error text: the message area is shown and the
\* result model, the pending DML count and the commit and rollback actions
\* stay as they are.  Otherwise with columns, even with no rows: the table is
\* shown and the model holds the new rows and columns with no edits, bound to
\* the pending table reference and its primary key when there is one, unbound
\* when there is none.  Otherwise: the row count is recorded as uncommitted
\* DML, the message area is shown, commit and rollback are enabled and the
\* model stays as it is.
C17_CompletionClassified ==
    [][last'.op = "query finished" =>
          /\ inbox # <<>>
          /\ inbox' = Tail(inbox)
          /\ LET c == Head(inbox)
                 m == results_model'
             IN CASE c.error # "" ->
                       /\ results_stack' = 1
                       /\ UNCHANGED <<results_model, pending_dml_changes, actions_enabled>>
                  [] c.error = "" /\ c.columns # <<>> ->
                       /\ results_stack' = 0
                       /\ m.data = c.rows /\ m.columns = c.columns /\ ~has_edits(m)
                       /\ IF pending[1] # "" /\ pending[2] # ""
                          THEN /\ m.schema = pending[1] /\ m.table = pending[2]
                               /\ m.pk_columns =
                                     get_primary_keys(Session(db), pending[1], pending[2])
                          ELSE m.schema = "" /\ m.table = "" /\ m.pk_columns = <<>>
                       /\ UNCHANGED pending_dml_changes
                  [] c.error = "" /\ c.columns = <<>> ->
                       /\ results_stack' = 1
                       /\ pending_dml_changes' = <<c.rowcount>>
                       /\ actions_enabled'
                       /\ UNCHANGED results_model]_vars

\* A result with columns and no rows was delivered after a DML result: the
\* table is shown, empty and bound to its table.
C17_EmptyTabularAfterDml ==
    /\ last.op = "query finished"
    /\ results_stack = 0
    /\ results_model.columns # <<>>
    /\ results_model.data = <<>>
    /\ results_model.table # ""
    /\ pending_dml_changes # NotSet

\* C19: every failure of a statement inside execute_query comes back from the
\* call as an error value, the failure of the rollback in the except clause
\* on a closed connection included: no exception leaves the worker's run, and
\* the completion it emits carries the error text.
C19_FailuresReturnedAsErrors ==
    [][(last'.op = "worker run" /\ last'.outcome = "statement failed") =>
          /\ ~last'.raised
          /\ last'.emitted = 1
          /\ inbox' # <<>>
          /\ inbox'[Len(inbox')].error # NoError]_vars

\* C21: over every sequence of calls the session holds a connection exactly
\* when it holds a profile; a connect or switch_database that succeeded leaves
\* the profile it passed to connect, every call that does not connect or
\* disconnect leaves connection and profile as they were, and after disconnect
\* the session is not connected.
C21_HandleIffProfile ==
    [][/\ db.conn <=> db.info # NoInfo
       /\ db'.conn <=> db'.info # NoInfo
       /\ (last'.op \in {"connect", "switch_database"} /\ "connect" \in Range(last'.calls)
              /\ ~last'.raised) =>
             /\ is_connected(Session(db'))
             /\ db'.info = last'.info
       /\ last'.op = "disconnect" => ~is_connected(Session(db'))
       /\ last'.op \notin {"connect", "switch_database", "disconnect"} =>
             /\ db'.conn = db.conn
             /\ db'.info = db.info]_vars

\* A switch_database on a connected session failed to connect: the session is
\* left without connection and without profile.
C21_FailedSwitch ==
    /\ last.op = "switch_database"
    /\ last.connected
    /\ last.raised
    /\ ~db.conn
    /\ db.info = NoInfo

\* C22: when _on_tree_expand has run to its end, the session is connected or
\* not as it was before the expansion, with the same profile, and
\* _original_info is unchanged.
C22_ExpandRestoresSession ==
    [][(last'.op = "tree expand" /\ ~last'.raised) =>
          /\ db'.conn = db.conn
          /\ db'.info = db.info
          /\ original_info' = original_info]_vars

\* C23: whenever the error flag of the result model is set, no cell of it is
\* editable.
C23_ErrorNeverEditable ==
    results_model.is_error => ~flags(results_model)

\* The text was resolved.
WasResolved == last.op = "_parse_table_from_query"

\* The word JOIN, in upper or lower case, stands between two blanks.
BlankJoinBlank(q) ==
    \E i \in 2 .. Len(q) - 1 : q[i] \in {"JOIN", "join"} /\ q[i-1] = " " /\ q[i+1] = " "

\* C24: a text with the word JOIN between two blanks, in any letter case,
\* resolves to ("", ""), whatever its FROM clause.
C24_JoinIsNeverResolved ==
    (WasResolved /\ BlankJoinBlank(last.query)) => last.ref = <<"", "">>

\* A text with a lower-case join after a schema-qualified table was resolved
\* to nothing.
C24_LowerCaseJoin ==
    /\ WasResolved
    /\ last.query = <<"SELECT", " ", "*", " ", "from", " ", "a", ".", "b", " ", "join", " ", "c">>
    /\ last.ref = <<"", "">>

\* C25: a text without JOIN between blanks resolves by the first of the four
\* shapes that occurs anywhere in it, in the order quoted schema.table, bare
\* schema.table, quoted table, bare table: the two names as written for a
\* qualified shape, "public" and the table for a single name, ("", "") when
\* no shape occurs; FROM "s"."t" gives (s, t), FROM t gives (public, t) and
\* FROM a.b WHERE x=1 gives (a, b).
C25_FirstShapeWins ==
    /\ _parse_table_from_query(<<"FROM", " ", DQ, "s", DQ, ".", DQ, "t", DQ>>) = <<"s", "t">>
    /\ _parse_table_from_query(<<"FROM", " ", "t">>) = <<"public", "t">>
    /\ _parse_table_from_query(<<"FROM", " ", "a", ".", "b", " ", "WHERE", " ", "x", "=", "1">>)
          = <<"a", "b">>
    /\ (WasResolved /\ ~BlankJoinBlank(last.query)) =>
          LET q == last.query
              occurs(n) == \E i \in 1 .. Len(q) : Matches(q, n, i)
              at(n) == CHOOSE i \in 1 .. Len(q) :
                           Matches(q, n, i) /\ \A j \in 1 .. i - 1 : ~Matches(q, n, j)
          IN /\ occurs(1) => last.ref = Groups(q, 1, at(1))
             /\ (~occurs(1) /\ occurs(2)) => last.ref = Groups(q, 2, at(2))
             /\ (~occurs(1) /\ ~occurs(2) /\ occurs(3)) =>
                   last.ref = Groups(q, 3, at(3)) /\ last.ref[1] = "public"
             /\ (~occurs(1) /\ ~occurs(2) /\ ~occurs(3) /\ occurs(4)) =>
                   last.ref = Groups(q, 4, at(4)) /\ last.ref[1] = "public"
             /\ (\A n \in 1 .. 4 : ~occurs(n)) => last.ref = <<"", "">>

\* A bare table with a schema-qualified table in a subquery after it: the
\* qualified shape, later in the text, decided.
C25_LaterQualifiedWins ==
    /\ WasResolved
    /\ last.query = <<"SELECT", " ", "*", " ", "FROM", " ", "a"," ", "WHERE", " ", "x", " ",
                      "IN", " ", "(", "SELECT", " ", "y", " ", "FROM", " ", "c", ".", "d", ")">>
    /\ last.ref = <<"c", "d">>

\* The rows of the text do not come from exactly one plain table: its FROM
\* holds a list of tables, or the text holds a subquery.
NotOnePlainTable(q) ==
    \/ \E i \in 1 .. Len(q) : q[i] = ","
    \/ \E i \in 1 .. Len(q) : q[i] = "(" /\ Upper(At(q, i+1)) = "SELECT"

\* C26: a SELECT whose rows do not come from exactly one plain table (a list
\* of tables in FROM, a subquery in FROM or WHERE) never resolves to a table
\* reference.
C26_OnlyOnePlainTableResolves ==
    (WasResolved /\ NotOnePlainTable(last.query)) => last.ref = <<"", "">>

\* The profiles of a store whose objects are all well-formed.
ProfilesOf(file) ==
    {[name |-> file.data[i].name,
      last_connected_at |-> IF "last_connected_at" \in DOMAIN file.data[i]
                            THEN file.data[i].last_connected_at ELSE 0] :
        i \in 1 .. Len(file.data)}

\* C27: a call of get_last_connection that returns, returns nothing exactly
\* when the store holds no profile; otherwise it returns a profile of the
\* store whose timestamp no other profile's exceeds, so one without a
\* timestamp only when no profile has one.
C27_MostRecentProfile ==
    (last.op = "get_last_connection" /\ ~last.raised) =>
        /\ last.found = NoProfile <=> ProfilesOf(last.file) = {}
        /\ last.found # NoProfile =>
              /\ last.found \in ProfilesOf(last.file)
              /\ \A p \in ProfilesOf(last.file) :
                     p.last_connected_at <= last.found.last_connected_at
              /\ last.found.last_connected_at = 0 =>
                     \A p \in ProfilesOf(last.file) : p.last_connected_at = 0

\* The store holds a profile without timestamp first and a timestamped one
\* after it: the second was returned.
C27_TimestampedAfterLegacy ==
    /\ last.op = "get_last_connection"
    /\ last.file.kind = "list"
    /\ Len(last.file.data) = 2
    /\ DOMAIN last.file.data[1] = {"name"}
    /\ last.found = [name |-> "p2", last_connected_at |-> 1]

\* C28: load_connections never raises: it returns the empty list for a
\* missing store, for one that is not JSON and for one with a malformed
\* object (name missing, or an unknown key); an object that lacks only the
\* timestamp loads with no timestamp.
C28_LoadNeverFails ==
    last.op = "load_connections" =>
        /\ ~last.raised
        /\ last.file.kind # "list" => last.loaded = <<>>
        /\ (\E i \in 1 .. Len(last.file.data) :
               \/ "name" \notin DOMAIN last.file.data[i]
               \/ "color" \in DOMAIN last.file.data[i]) => last.loaded = <<>>
        /\ \A i \in 1 .. Len(last.loaded) :
               DOMAIN last.file.data[i] = {"name"} =>
                   last.loaded[i] = [name |-> last.file.data[i].name,
                                     last_connected_at |-> 0]

\* C29: a commit of cell edits that reaches conn.commit() has issued the UPDATE
\* of every pending edit before, and has cleared the edit set by then: when the
\* commit succeeds every UPDATE is in the committed work, and when the commit
\* itself fails the edit set is empty all the same.  When an UPDATE fails the
\* edit set is not cleared and nothing is committed.
C29_UpdatesThenClearThenCommit ==
    [][(last'.op = "commit" /\ has_edits(results_model)) =>
         LET m == results_model
             edits == get_pending_edits(m)
         IN /\ last'.outcome \in {"committed", "commit failed"} =>
                   ~has_edits(results_model')
            /\ last'.outcome = "committed" =>
                   \A i \in 1 .. Len(edits) :
                       UpdateOf(m.schema, m.table, edits[i].pk_values,
                                edits[i].column, edits[i].new_value) \in last'.committed
            /\ last'.outcome = "commit failed" => last'.raised /\ last'.committed = {}
            /\ last'.outcome \notin {"committed", "commit failed"} =>
                   results_model' = m /\ last'.committed = {}]_vars

\* A commit made the UPDATE of a cell edit durable and left no pending edit.
C29_CellEditCommitted ==
    /\ last.op = "commit"
    /\ last.outcome = "committed"
    /\ \E u \in last.committed : u.kind = "update"
    /\ ~has_edits(results_model)

\* C30: the count of the last editsChanged emission is the size of the edit
\* set, after each of setData, clear_edits, set_data and clear.
C30_NotifiedCountIsEditCount ==
    last.notified = edit_count(results_model)

\* A cell write left exactly one pending edit on a grid that has unedited cells
\* too, and the count it emitted is 1.
C30_NotifiedAfterRevert ==
    /\ last.op = "setData"
    /\ last.notified = 1
    /\ edit_count(results_model) = 1
    /\ \E c \in DOMAIN results_model.edits :
           results_model.edits[c] # Original(results_model, c[1], c[2])
    /\ \E c \in ValidIndexes(results_model) : c \notin DOMAIN results_model.edits

\* C31: while an uncommitted DML result or pending cell edits are there, the
\* commit and rollback actions are enabled, also after a later SELECT result
\* has been delivered over an uncommitted DML result.
C31_PendingWorkKeepsActionsEnabled ==
    (DmlPending \/ has_edits(results_model)) => actions_enabled

\* C32: the UPDATEs of a commit of cell edits go to the database the rows in
\* the grid were fetched from (here d1 of c1), also after the connection dialog
\* was accepted with another profile while the edits were pending.
C32_EditsCommittedWhereFetched ==
    [][(last'.op = "commit" /\ has_edits(results_model) /\ db.conn) =>
         db.info = [name |-> "c1", dbname |-> "d1"]]_vars

\* C33: after a commit of cell edits that is reported as successful, the table
\* row behind each edited grid row holds every edited value, also when the key
\* column is not among the fetched columns and when the key cell and another
\* cell of the row were edited together.
C33_CommittedEditsAreDurable ==
    [][(last'.op = "commit" /\ last'.outcome = "committed") =>
         \A c \in DOMAIN results_model.edits :
             last'.table[c[1]][results_model.columns[c[2]]] = results_model.edits[c]]_vars

\* C34: after every step, a non-empty edit set comes with a bound table that
\* has a primary key and every edited cell is a cell of the current rows and
\* columns; and the delivery of a tabular result, which replaces the rows,
\* leaves no edit.
C34_EditsBelongToCurrentResult ==
    [][/\ has_edits(results_model') =>
              /\ results_model'.table # ""
              /\ results_model'.pk_columns # <<>>
              /\ DOMAIN results_model'.edits \subseteq ValidIndexes(results_model')
       /\ (/\ last'.op = "query finished"
           /\ inbox # <<>>
           /\ Head(inbox).error = NoError
           /\ Head(inbox).columns # <<>>) => ~has_edits(results_model')]_vars

\* Cells are edited while the tabular result that will replace the rows is
\* waiting to be delivered.
C34_EditsBeforeReplacement ==
    /\ has_edits(results_model)
    /\ inbox # <<>>
    /\ Head(inbox).error = NoError
    /\ Head(inbox).columns # <<>>

\* C35: a delivered tabular result is bound to the table derived at dispatch
\* from the text that produced it, with that table's primary key.  The result
\* with the one column w is the result of the text SELECT v AS "w" FROM t1,
\* which ran in database d1, and the window is still connected to d1.
C35_BoundToOwnQuery ==
    [][(/\ last'.op = "query finished"
        /\ inbox # <<>>
        /\ Head(inbox).error = NoError
        /\ Head(inbox).columns = <<"w">>
        /\ db.conn) =>
         LET query == CHOOSE q \in AliasTexts : ColumnsOf(q) = <<"w">>
             ref == _parse_table_from_query(query)
         IN /\ results_model'.schema = ref[1]
            /\ results_model'.table = ref[2]
            /\ results_model'.pk_columns = Catalog("d1")[ref[2]]]_vars

\* C36 as stated: when an error completion is delivered the grid is as it was
\* before the request (every request is made on EditedGrid with commit and
\* rollback enabled): same rows, columns, binding and edits, and the actions
\* are enabled as before.
C36_SameAsBeforeRequest ==
    [][(last'.op = "query finished" /\ inbox # <<>> /\ Head(inbox).error # NoError) =>
         results_model' = EditedGrid /\ actions_enabled']_vars

\* C36: the delivery of an error completion changes neither the grid (rows,
\* columns, binding, edits) nor the enabled state of commit and rollback, and
\* the statement's failure has rolled the session's transaction back.
C36_ErrorDeliveryChangesNothing ==
    [][/\ (last'.op = "query finished" /\ inbox # <<>> /\ Head(inbox).error # NoError) =>
              results_model' = results_model /\ actions_enabled' = actions_enabled
       /\ (last'.op = "worker run" /\ last'.outcome = "statement failed" /\ ~last'.raised) =>
              db'.txn = {}]_vars

\* An error completion was delivered while the edit was pending: the edit is
\* still there and the actions are enabled.
C36_ErrorOverPendingEdit ==
    /\ last.op = "query finished"
    /\ results_stack = 1
    /\ pending_dml_changes = NotSet
    /\ results_model = EditedGrid
    /\ actions_enabled

\* C37: an editor opened on a cell and closed with nothing changed leaves the
\* edit set as it was, for every column type and every value of the cell.
C37_UnchangedEditorRecordsNoEdit ==
    [][last'.op = "closed" => results_model'.edits = results_model.edits]_vars

=============================================================================
